---- MODULE Spec2Model ----
(***************************************************************************)
(* A model of the knowledge-base ingestion service (vdb_center):           *)
(*   src/src/db/models.py        the two tables and their constraints      *)
(*   src/src/db/mapper.py        the SQL statements                        *)
(*   src/src/service/kb_service.py  the operations built from them         *)
(*                                                                         *)
(* The store is PostgreSQL at READ COMMITTED.  `kbs' and `items' are the   *)
(* committed tables; txKbs[p] and txItems[p] hold the row versions session *)
(* p has written and not yet committed.  A statement of session p reads    *)
(* its own versions over the committed ones; a row with an uncommitted     *)
(* version is locked by its writer, and a statement of another session     *)
(* that has to write or lock that row waits (its action is disabled).     *)
(***************************************************************************)
EXTENDS Integers, Sequences, FiniteSets, TLC

\* ------------------------------------------------------------------ bounds
NProcs == 3          \* sessions (concurrent callers of get-or-create)
NSessions == 2       \* sessions that run the registry and QA operations concurrently
NProjects == 2       \* project ids 1..NProjects
NSharedProjects == 1 \* project ids the concurrent sessions work on
MaxKbId == 2         \* values the knowledge_base id sequence may hand out
MaxItemId == 4       \* values the item id sequence may hand out
NSharedItemIds == 1  \* the same, while sessions run concurrently
MaxChunks == 3       \* longest segment list of one ingestion run
MaxRows == 2         \* longest row list of one upsert_chunks call
MaxChunkIndex == 1   \* largest chunk_index of such a row
NRunProjects == 1    \* project ids the ingestion runs work on
NRunKbIds == 1       \* knowledge_base ids handed out before the runs
MaxFaults == 2       \* calls that may fail during one operation
MaxRuns == 2         \* ingestion runs that may be started
MaxTopK == 2         \* largest top_k of a retrieval
MaxBatchSize == 3    \* largest embedding or upsert batch size of a service instance
MaxCount == 1        \* largest count handed to update_kb_ingest_status
MaxStatusCalls == 2  \* calls of update_kb_ingest_status that may be made
MaxStrLen == 2       \* longest question or answer handed to a QA operation

Procs == 1..NProcs
Projects == 1..NProjects
Texts == {"x", "y"}

\* ------------------------------------------------------- program constants
\* KBService.__init__ sets 10 and 200; the model keeps the order of the two
\* sizes and scales them to the segment lists it can enumerate.
embedding_batch_size == 1
db_upsert_batch_size == 2

KB_INGEST_STATUS_INGESTING == "ingesting"
KB_INGEST_STATUS_SUCCEEDED == "succeeded"
KB_INGEST_STATUS_FAILED == "failed"
KB_INGEST_STATUS_VALUES ==
    {KB_INGEST_STATUS_INGESTING, KB_INGEST_STATUS_SUCCEEDED, KB_INGEST_STATUS_FAILED}

VARIABLES
    kbs,         \* committed knowledge_base rows: id -> row
    items,       \* committed item rows: id -> row
    nextKbId,    \* knowledge_base id sequence (not transactional)
    nextItemId,  \* item id sequence (not transactional)
    txKbs,       \* session -> (id -> row): its uncommitted knowledge_base versions
    txItems,     \* session -> (id -> row): its uncommitted item versions
    advLocks,    \* session -> set of project ids whose advisory lock it holds
    pc,          \* session -> position in the operation it runs
    op,          \* session -> the operation it runs
    loc,         \* session -> the operation's arguments and local variables
    ret,         \* what the step just taken returned to a caller (NoRet: nothing)
    env          \* the environment: faults left for the running operation and
                 \* its budget, runs that may still start, last ids of the sequences

vars == <<kbs, items, nextKbId, nextItemId, txKbs, txItems, advLocks, pc, op, loc, ret, env>>

NoRows == [k \in {} |-> 0]

\* ------------------------------------------------------------------- rows
\* KnowledgeBase(...) as create_kb builds it; the counts and is_deleted take
\* their server defaults.
KnowledgeBase(project_id, ingest_status, qa_items) ==
    [project_id |-> project_id, qa_items |-> qa_items, ingest_status |-> ingest_status,
     success_count |-> 0, failed_count |-> 0, is_deleted |-> 0]

\* One element of `rows' in upsert_chunks.
ItemRow(kb_id, project_id, chunk_index, origin_text) ==
    [kb_id |-> kb_id, project_id |-> project_id, chunk_index |-> chunk_index,
     origin_text |-> origin_text, is_deleted |-> 0]

\* ------------------------------------------------------------ transactions
\* What a statement of session p reads.
KbView(p) == txKbs[p] @@ kbs
ItemView(p) == txItems[p] @@ items

\* Another session holds the row lock of knowledge_base row k / item row i.
KbLockedByOther(p, k) == \E q \in Procs \ {p} : k \in DOMAIN txKbs[q]
ItemLockedByOther(p, i) == \E q \in Procs \ {p} : i \in DOMAIN txItems[q]

Max(a, b) == IF a >= b THEN a ELSE b

Min(S) == CHOOSE x \in S : \A y \in S : x <= y

\* The arguments and local variables of an operation; the fields an
\* operation does not use keep these values.
NoLoc ==
    [project_id |-> 0, kb_id |-> 0,
     chunks |-> <<>>, append_to_existing |-> FALSE, dedup_origin_text |-> FALSE,
     total_input_count |-> 0, skipped_count |-> 0, start_chunk_index |-> 0,
     i |-> 0, upsert_batch |-> <<>>, total_upserted |-> 0,
     qa_text |-> "", item_id |-> 0, item_ids |-> {}, chunk_index |-> 0,
     forbid_qa_kb |-> TRUE, forbid_ingesting |-> TRUE,
     file |-> <<>>, yielded |-> <<>>,
     \* what the properties of a run refer to: why it failed, the chunk indexes
     \* of the embedding batch that came back with the wrong number of vectors,
     \* the row versions its upsert statements wrote, and the item table when
     \* it started
     error |-> "", failed_batch |-> {}, written |-> NoRows, items_at_start |-> NoRows,
     \* the run is the one that has just returned True, called again
     resubmitted |-> FALSE,
     \* the INSERT of get-or-create raised IntegrityError
     requeried |-> FALSE,
     \* self.embedding_batch_size and self.db_upsert_batch_size of the service
     \* instance that runs the operation
     embedding_batch_size |-> embedding_batch_size,
     db_upsert_batch_size |-> db_upsert_batch_size,
     \* retrieve_hybrid: its arguments, dense_results, and the committed item
     \* rows at the time of the first statement
     top_k_embedding |-> 0, top_k_bm25 |-> 0, dense_results |-> <<>>,
     items_at_dense |-> NoRows]

NoRet == [op |-> "none"]

\* ------------------------------------------------- knowledge_base statements
\* uq_knowledge_base_project_qa_items: a unique index on project_id over the
\* rows with qa_items = true AND is_deleted = 0.  TRUE when writing `row' as
\* row `id' of `view' would break it.
QaIndexed(row) == row.qa_items /\ row.is_deleted = 0

\* The table without the index: nothing is refused.
QaIndexNotEnforced(view, id, row) == FALSE

QaIndexViolated(view, id, row) ==
    /\ QaIndexed(row)
    /\ \E k \in DOMAIN view \ {id} :
          QaIndexed(view[k]) /\ view[k].project_id = row.project_id

\* A writer of the index entry of `project_id' that has not committed yet: the
\* statement that would conflict with it waits for it to end.
QaIndexBusy(p, project_id) ==
    \E q \in Procs \ {p} : \E k \in DOMAIN txKbs[q] :
        txKbs[q][k].project_id = project_id /\ txKbs[q][k].qa_items

\* The query without its project_id condition.
get_any_qa_kb_id(view, project_id) ==
    LET hits == {k \in DOMAIN view : view[k].qa_items /\ view[k].is_deleted = 0}
    IN  IF hits = {} THEN 0 ELSE Min(hits)

\* get_project_qa_kb_id: the smallest id of a live QA row of the project, 0
\* for None (ids start at 1).
get_project_qa_kb_id(view, project_id) ==
    LET hits == {k \in DOMAIN view :
                    /\ view[k].project_id = project_id
                    /\ view[k].qa_items
                    /\ view[k].is_deleted = 0}
    IN  IF hits = {} THEN 0 ELSE Min(hits)

\* The UPDATE without `ingest_status' among its values.
update_kb_counts_only(view, kb_id, project_id, ingest_status, success_count, failed_count) ==
    IF /\ kb_id \in DOMAIN view
       /\ view[kb_id].project_id = project_id
       /\ view[kb_id].is_deleted = 0
    THEN kb_id :> [view[kb_id] EXCEPT
                     !.success_count =
                         IF success_count = <<>> THEN @ ELSE Max(0, success_count[1]),
                     !.failed_count =
                         IF failed_count = <<>> THEN @ ELSE Max(0, failed_count[1])]
    ELSE NoRows

\* The UPDATE that never writes failed_count.
update_kb_success_only(view, kb_id, project_id, ingest_status, success_count, failed_count) ==
    IF /\ kb_id \in DOMAIN view
       /\ view[kb_id].project_id = project_id
       /\ view[kb_id].is_deleted = 0
    THEN kb_id :> [view[kb_id] EXCEPT
                     !.ingest_status = ingest_status,
                     !.success_count =
                         IF success_count = <<>> THEN @ ELSE Max(0, success_count[1])]
    ELSE NoRows

\* The UPDATE whose WHERE clause names the id only.
update_kb_by_id_only(view, kb_id, project_id, ingest_status, success_count, failed_count) ==
    IF kb_id \in DOMAIN view
    THEN kb_id :> [view[kb_id] EXCEPT
                     !.ingest_status = ingest_status,
                     !.success_count =
                         IF success_count = <<>> THEN @ ELSE Max(0, success_count[1]),
                     !.failed_count =
                         IF failed_count = <<>> THEN @ ELSE Max(0, failed_count[1])]
    ELSE NoRows

\* update_kb_ingest_status: the row versions the UPDATE writes.  It touches the
\* row with this id and project that is not soft-deleted; a count is written
\* only when given (<<>> stands for None, <<n>> for n) and never below 0.
update_kb_ingest_status(view, kb_id, project_id, ingest_status, success_count, failed_count) ==
    IF /\ kb_id \in DOMAIN view
       /\ view[kb_id].project_id = project_id
       /\ view[kb_id].is_deleted = 0
    THEN kb_id :> [view[kb_id] EXCEPT
                     !.ingest_status = ingest_status,
                     !.success_count =
                         IF success_count = <<>> THEN @ ELSE Max(0, success_count[1]),
                     !.failed_count =
                         IF failed_count = <<>> THEN @ ELSE Max(0, failed_count[1])]
    ELSE NoRows

\* A store whose statements never wait for a row lock.
KbRowNeverBusy(p, kb_id) == FALSE

\* A statement of session p that writes knowledge_base row kb_id waits while
\* another session holds that row's lock.
KbRowBusy(p, kb_id) == kb_id \in DOMAIN kbs /\ KbLockedByOther(p, kb_id)

\* ------------------------------------------------------------ item statements
\* The ids of the rows of knowledge base kb_id in `view'.
KbItemIds(view, kb_id, project_id) ==
    {i \in DOMAIN view : view[i].kb_id = kb_id /\ view[i].project_id = project_id}

\* The query with is_deleted = 0 among its conditions.
get_next_chunk_index_of_live_rows(view, kb_id, project_id) ==
    LET idx == {view[i].chunk_index :
                   i \in {j \in KbItemIds(view, kb_id, project_id) : view[j].is_deleted = 0}}
    IN  IF idx = {} THEN 0 ELSE (CHOOSE m \in idx : \A n \in idx : n <= m) + 1

\* get_next_chunk_index: coalesce(max(chunk_index), -1) + 1 over the rows of the
\* knowledge base, soft-deleted ones included.
get_next_chunk_index(view, kb_id, project_id) ==
    LET idx == {view[i].chunk_index : i \in KbItemIds(view, kb_id, project_id)}
    IN  IF idx = {} THEN 0 ELSE (CHOOSE m \in idx : \A n \in idx : n <= m) + 1

\* get_item_id_by_chunk_index: the live row at that index, 0 for None.
get_item_id_by_chunk_index(view, kb_id, project_id, chunk_index) ==
    LET hits == {i \in KbItemIds(view, kb_id, project_id) :
                    view[i].chunk_index = chunk_index /\ view[i].is_deleted = 0}
    IN  IF hits = {} THEN 0 ELSE CHOOSE i \in hits : TRUE

\* get_existing_origin_texts: which of origin_texts a live row of the knowledge
\* base holds.
get_existing_origin_texts(view, kb_id, project_id, origin_texts) ==
    {view[i].origin_text :
        i \in {j \in KbItemIds(view, kb_id, project_id) :
                  view[j].is_deleted = 0 /\ view[j].origin_text \in origin_texts}}

\* The UPDATE without is_deleted == 0 in its WHERE clause.
soft_delete_items_deleted_or_not(view, kb_id, project_id, item_ids) ==
    LET hits == {i \in KbItemIds(view, kb_id, project_id) : i \in item_ids}
    IN  [i \in hits |-> [view[i] EXCEPT !.is_deleted = 1]]

\* soft_delete_items_by_ids: the row versions the UPDATE writes (its rowcount is
\* their number).
soft_delete_items_by_ids(view, kb_id, project_id, item_ids) ==
    LET hits == {i \in KbItemIds(view, kb_id, project_id) :
                    view[i].is_deleted = 0 /\ i \in item_ids}
    IN  [i \in hits |-> [view[i] EXCEPT !.is_deleted = 1]]

\* update_qa_item_by_id: the row versions the UPDATE writes; it reports
\* rowcount > 0.
update_qa_item_by_id(view, kb_id, project_id, item_id, text_value) ==
    LET hits == {i \in KbItemIds(view, kb_id, project_id) :
                    view[i].is_deleted = 0 /\ i = item_id}
    IN  [i \in hits |-> [view[i] EXCEPT !.origin_text = text_value]]

\* uq_item_kb_chunk_index: the row of `view' holding (kb_id, chunk_index), 0
\* when there is none.  The constraint does not look at project_id or is_deleted.
ConflictId(view, kb_id, chunk_index) ==
    LET hits == {i \in DOMAIN view :
                    view[i].kb_id = kb_id /\ view[i].chunk_index = chunk_index}
    IN  IF hits = {} THEN 0 ELSE CHOOSE i \in hits : TRUE

\* The positions of `chunks' whose (kb_id, chunk_index) no row of `view' holds:
\* the INSERT adds a row for each, the others take ON CONFLICT DO UPDATE.
FreshPositions(view, kb_id, chunks) ==
    {j \in 1..Len(chunks) : ConflictId(view, kb_id, chunks[j].chunk_index) = 0}

\* A plain INSERT on a table without the unique constraint: every row goes in
\* under its new id.
insert_chunks(view, nextId, kb_id, project_id, chunks) ==
    [id \in {nextId + (j - 1) : j \in 1..Len(chunks)} |->
        LET j == id - nextId + 1
        IN  ItemRow(kb_id, project_id, chunks[j].chunk_index, chunks[j].text)]

\* The upsert whose DO UPDATE leaves is_deleted as it is.
upsert_chunks_keeping_is_deleted(view, nextId, kb_id, project_id, chunks) ==
    LET fresh == FreshPositions(view, kb_id, chunks)
        idOf(j) == IF j \in fresh
                   THEN nextId + (j - 1)
                   ELSE ConflictId(view, kb_id, chunks[j].chunk_index)
    IN  [id \in {idOf(j) : j \in 1..Len(chunks)} |->
            LET j == CHOOSE j2 \in 1..Len(chunks) : idOf(j2) = id
                row == ItemRow(kb_id, project_id, chunks[j].chunk_index, chunks[j].text)
            IN  IF j \in fresh THEN row ELSE [row EXCEPT !.is_deleted = view[id].is_deleted]]

\* upsert_chunks: INSERT ... ON CONFLICT (kb_id, chunk_index) DO UPDATE.  The
\* row versions the statement writes.  Every proposed row draws its id from the
\* sequence, in the order of `chunks'; where the key is free the row goes in
\* with that id; where it is taken the existing row stays, id kept, value
\* columns and project_id overwritten and is_deleted = 0, and the drawn id is
\* lost.
upsert_chunks(view, nextId, kb_id, project_id, chunks) ==
    LET fresh == FreshPositions(view, kb_id, chunks)
        idOf(j) == IF j \in fresh
                   THEN nextId + (j - 1)
                   ELSE ConflictId(view, kb_id, chunks[j].chunk_index)
    IN  [id \in {idOf(j) : j \in 1..Len(chunks)} |->
            LET j == CHOOSE j2 \in 1..Len(chunks) : idOf(j2) = id
            IN  ItemRow(kb_id, project_id, chunks[j].chunk_index, chunks[j].text)]

\* The statement cannot go in: the knowledge base row it references does not
\* exist (foreign key), or two of its rows have the same chunk_index (ON
\* CONFLICT DO UPDATE cannot affect a row a second time).
UpsertRaises(kbView, kb_id, chunks) ==
    \/ kb_id \notin DOMAIN kbView
    \/ \E j1, j2 \in 1..Len(chunks) :
          j1 # j2 /\ chunks[j1].chunk_index = chunks[j2].chunk_index

\* The statement waits: another session has an uncommitted version of a row
\* with one of its keys.
UpsertBusy(p, kb_id, chunks) ==
    \E q \in Procs \ {p} : \E i \in DOMAIN txItems[q] : \E j \in 1..Len(chunks) :
        txItems[q][i].kb_id = kb_id /\ txItems[q][i].chunk_index = chunks[j].chunk_index

\* An UPDATE of item rows waits while another session holds the lock of a row
\* it has to write.
ItemsBusy(p, ids) == \E i \in ids : i \in DOMAIN items /\ ItemLockedByOther(p, i)

\* ------------------------------------------------------- session bookkeeping
Goto(p, label) == pc' = [pc EXCEPT ![p] = label]
SetLoc(p, l) == loc' = [loc EXCEPT ![p] = l]

\* The session's transaction ends: its row versions are published (commit) or
\* dropped (rollback), and its advisory locks are released either way.
Commit(p, newTxKbs, newTxItems) ==
    /\ kbs' = newTxKbs @@ kbs
    /\ items' = newTxItems @@ items
    /\ txKbs' = [txKbs EXCEPT ![p] = NoRows]
    /\ txItems' = [txItems EXCEPT ![p] = NoRows]
    /\ advLocks' = [advLocks EXCEPT ![p] = {}]

\* A rollback that drops the knowledge_base versions only.
RollbackKeepsItems(p) ==
    /\ txKbs' = [txKbs EXCEPT ![p] = NoRows]
    /\ advLocks' = [advLocks EXCEPT ![p] = {}]
    /\ UNCHANGED <<kbs, items, txItems>>

Rollback(p) ==
    /\ txKbs' = [txKbs EXCEPT ![p] = NoRows]
    /\ txItems' = [txItems EXCEPT ![p] = NoRows]
    /\ advLocks' = [advLocks EXCEPT ![p] = {}]
    /\ UNCHANGED <<kbs, items>>

\* The operation ends and hands `r' to its caller.
Return(p, r) ==
    /\ pc' = [pc EXCEPT ![p] = "idle"]
    /\ op' = [op EXCEPT ![p] = "none"]
    /\ loc' = [loc EXCEPT ![p] = NoLoc]
    /\ ret' = r

\* The step returns nothing to a caller.
NoReturn == ret' = NoRet

Start(p, o, label, l) ==
    /\ pc[p] = "idle"
    /\ pc' = [pc EXCEPT ![p] = label]
    /\ op' = [op EXCEPT ![p] = o]
    /\ loc' = [loc EXCEPT ![p] = l]
    /\ NoReturn
    /\ UNCHANGED <<kbs, items, nextKbId, nextItemId, txKbs, txItems, advLocks, env>>

\* ------------------------------------------------ get_or_create_project_qa_kb_id
\* add_single_qa_item without its first status write and commit (lines 196-199).
AfterGocNoCommit(o) ==
    CASE o = "goc" -> "goc_commit"
      [] o = "add" -> "add_existing"
      [] o = "delmany" -> "del_items"
      [] o = "update" -> "upd_ingesting"

\* Where the caller goes on once get_or_create_project_qa_kb_id has returned.
AfterGoc(o) ==
    CASE o = "goc" -> "goc_commit"
      [] o = "add" -> "add_ingesting"
      [] o = "delmany" -> "del_items"
      [] o = "update" -> "upd_ingesting"

\* SELECT pg_advisory_xact_lock(project_id): waits while another session's
\* transaction holds the lock of this project.
GocLock(p) ==
    /\ pc[p] = "goc_lock"
    /\ \A q \in Procs \ {p} : loc[p].project_id \notin advLocks[q]
    /\ advLocks' = [advLocks EXCEPT ![p] = @ \cup {loc[p].project_id}]
    /\ Goto(p, "goc_select")
    /\ UNCHANGED <<kbs, items, nextKbId, nextItemId, txKbs, txItems, op, loc, env>>
    /\ NoReturn

\* The same statement on a store where the lock excludes nobody: it returns at
\* once and nothing is held.
GocLockNoExclusion(p) ==
    /\ pc[p] = "goc_lock"
    /\ Goto(p, "goc_select")
    /\ UNCHANGED <<kbs, items, nextKbId, nextItemId, txKbs, txItems, advLocks, op, loc, env>>
    /\ NoReturn

\* kb_id = get_project_qa_kb_id(...); return it when it is not None.
GocSelect(p) ==
    /\ pc[p] = "goc_select"
    /\ LET kb_id == get_project_qa_kb_id(KbView(p), loc[p].project_id)
       IN  IF kb_id # 0
           THEN /\ SetLoc(p, [loc[p] EXCEPT !.kb_id = kb_id])
                /\ Goto(p, AfterGoc(op[p]))
           ELSE /\ Goto(p, "goc_insert")
                /\ UNCHANGED loc
    /\ UNCHANGED <<kbs, items, nextKbId, nextItemId, txKbs, txItems, advLocks, op, env>>
    /\ NoReturn

\* create_kb(file_name="qa_items", qa_items=True, ingest_status=succeeded): the
\* flush sends the INSERT.  The id sequence advances whether or not the row
\* goes in.  On IntegrityError the handler rolls the session back (which ends
\* the transaction and releases the advisory lock) and queries again.
GocInsert(p) ==
    /\ pc[p] = "goc_insert"
    /\ nextKbId <= env.maxKbId
    /\ ~QaIndexBusy(p, loc[p].project_id)
    /\ nextKbId' = nextKbId + 1
    /\ LET row == KnowledgeBase(loc[p].project_id, KB_INGEST_STATUS_SUCCEEDED, TRUE)
       IN  IF QaIndexViolated(KbView(p), nextKbId, row)
           THEN /\ Rollback(p)
                /\ Goto(p, "goc_requery")
                /\ SetLoc(p, [loc[p] EXCEPT !.requeried = TRUE])
           ELSE /\ txKbs' = [txKbs EXCEPT ![p] = (nextKbId :> row) @@ @]
                /\ SetLoc(p, [loc[p] EXCEPT !.kb_id = nextKbId])
                /\ Goto(p, AfterGoc(op[p]))
                /\ UNCHANGED <<kbs, items, txItems, advLocks>>
    /\ UNCHANGED <<nextItemId, op, env>>
    /\ NoReturn

\* The function without the handler: the IntegrityError goes to the caller.
GocNoRequery(p) ==
    /\ pc[p] = "goc_requery"
    /\ Return(p, [op |-> op[p], raised |-> TRUE, project_id |-> loc[p].project_id,
                   kb_id |-> 0, error |-> ""])
    /\ UNCHANGED <<kbs, items, nextKbId, nextItemId, txKbs, txItems, advLocks, env>>

\* except IntegrityError: ... kb_id = get_project_qa_kb_id(...); raise when it
\* is still None.
GocRequery(p) ==
    /\ pc[p] = "goc_requery"
    /\ LET kb_id == get_project_qa_kb_id(KbView(p), loc[p].project_id)
       IN  IF kb_id # 0
           THEN /\ SetLoc(p, [loc[p] EXCEPT !.kb_id = kb_id])
                /\ Goto(p, AfterGoc(op[p]))
                /\ UNCHANGED op
                /\ NoReturn
           ELSE Return(p, [op |-> op[p], raised |-> TRUE, project_id |-> loc[p].project_id,
                           kb_id |-> 0, error |-> ""])
    /\ UNCHANGED <<kbs, items, nextKbId, nextItemId, txKbs, txItems, advLocks, env>>

\* KBService.get_or_create_project_qa_kb: the call, then session.commit().
StartGetOrCreate(p, project_id) ==
    Start(p, "goc", "goc_lock", [NoLoc EXCEPT !.project_id = project_id])

GocCommit(p) ==
    /\ pc[p] = "goc_commit"
    /\ Commit(p, txKbs[p], txItems[p])
    /\ Return(p, [op |-> "goc", raised |-> FALSE, project_id |-> loc[p].project_id,
                   kb_id |-> loc[p].kb_id, requeried |-> loc[p].requeried])
    /\ UNCHANGED <<nextKbId, nextItemId, env>>

\* ------------------------------------------------------------ the environment
\* What a call of the store or of the embedding service may do: it answers, or,
\* while the environment has faults left, it raises.
Outcomes == IF env.faults > 0 THEN {"ok", "error"} ELSE {"ok"}
Spend(o) == env' = IF o = "ok" THEN env ELSE [env EXCEPT !.faults = @ - 1]

\* The budget of faults is per operation: it is whole again when one ends.
Replenish == env' = [env EXCEPT !.faults = env.maxFaults]

\* --------------------------------------------------------------- create_kb
\* create_kb and the commit of its caller (create_kb_ingest_task): one INSERT.
\* A QA row that breaks the partial unique index raises IntegrityError and
\* nothing is stored; the id is spent either way.
Create(p, project_id, qa_items, ingest_status) ==
    /\ pc[p] = "idle"
    /\ ingest_status \in KB_INGEST_STATUS_VALUES
    /\ nextKbId <= env.maxKbId
    /\ qa_items => ~QaIndexBusy(p, project_id)
    /\ nextKbId' = nextKbId + 1
    /\ LET row == KnowledgeBase(project_id, ingest_status, qa_items)
       IN  IF QaIndexViolated(kbs, nextKbId, row)
           THEN /\ ret' = ([op |-> "create", raised |-> TRUE])
                /\ UNCHANGED kbs
           ELSE /\ kbs' = (nextKbId :> row) @@ kbs
                /\ ret' = ([op |-> "create", raised |-> FALSE, kb_id |-> nextKbId])
    /\ UNCHANGED <<items, nextItemId, txKbs, txItems, advLocks, pc, op, loc, env>>

\* ------------------------------------------------- soft_delete_kb_and_chunks
KB_DELETE_REASON_DELETED == "deleted"
KB_DELETE_REASON_NOT_FOUND == "not_found"
KB_DELETE_REASON_ALREADY_DELETED == "already_deleted"
KB_DELETE_REASON_QA_KB_FORBIDDEN == "qa_kb_forbidden"
KB_DELETE_REASON_INGESTING_FORBIDDEN == "ingesting_forbidden"

StartSoftDelete(p, kb_id, project_id, forbid_qa_kb, forbid_ingesting) ==
    Start(p, "delete", "sd_select",
          [NoLoc EXCEPT !.kb_id = kb_id, !.project_id = project_id,
                        !.forbid_qa_kb = forbid_qa_kb,
                        !.forbid_ingesting = forbid_ingesting])

\* The dict whose reason is never set after the checks: it keeps not_found.
base_result_reason_unset(p, kb_deleted, item_deleted_count, reason) ==
    [op |-> "delete", kb_id |-> loc[p].kb_id, project_id |-> loc[p].project_id,
     kb_deleted |-> kb_deleted, item_deleted_count |-> item_deleted_count,
     reason |-> KB_DELETE_REASON_NOT_FOUND,
     forbid_qa_kb |-> loc[p].forbid_qa_kb, forbid_ingesting |-> loc[p].forbid_ingesting,
     kbs_before |-> kbs, items_before |-> items]

\* The dict the call returns; next to it, what the properties of a call refer
\* to: the flags it was given and the committed tables its last statement saw.
base_result(p, kb_deleted, item_deleted_count, reason) ==
    [op |-> "delete", kb_id |-> loc[p].kb_id, project_id |-> loc[p].project_id,
     kb_deleted |-> kb_deleted, item_deleted_count |-> item_deleted_count,
     reason |-> reason,
     forbid_qa_kb |-> loc[p].forbid_qa_kb, forbid_ingesting |-> loc[p].forbid_ingesting,
     kbs_before |-> kbs, items_before |-> items]

\* The checks with the ingesting check ahead of the QA check.
SdSelectStatusFirst(p) ==
    /\ pc[p] = "sd_select"
    /\ LET kb_id == loc[p].kb_id
           found == kb_id \in DOMAIN kbs /\ kbs[kb_id].project_id = loc[p].project_id
       IN  IF ~found
           THEN /\ Return(p, base_result(p, FALSE, 0, KB_DELETE_REASON_NOT_FOUND))
                /\ UNCHANGED txKbs
           ELSE /\ ~KbRowBusy(p, kb_id)
                /\ IF kbs[kb_id].is_deleted # 0
                   THEN /\ Return(p, base_result(p, FALSE, 0, KB_DELETE_REASON_ALREADY_DELETED))
                        /\ UNCHANGED txKbs
                   ELSE IF /\ loc[p].forbid_ingesting
                           /\ kbs[kb_id].ingest_status = KB_INGEST_STATUS_INGESTING
                   THEN /\ Return(p, base_result(p, FALSE, 0, KB_DELETE_REASON_INGESTING_FORBIDDEN))
                        /\ UNCHANGED txKbs
                   ELSE IF loc[p].forbid_qa_kb /\ kbs[kb_id].qa_items
                   THEN /\ Return(p, base_result(p, FALSE, 0, KB_DELETE_REASON_QA_KB_FORBIDDEN))
                        /\ UNCHANGED txKbs
                   ELSE /\ txKbs' = [txKbs EXCEPT ![p] = (kb_id :> kbs[kb_id]) @@ @]
                        /\ Goto(p, "sd_update")
                        /\ UNCHANGED <<op, loc>>
                        /\ NoReturn
    /\ UNCHANGED <<kbs, items, nextKbId, nextItemId, txItems, advLocks, env>>

\* SELECT ... FOR UPDATE of the row, then the checks on what it read.  The
\* statement waits for the row's lock; the lock is kept (as an unchanged row
\* version) when the delete goes on, and ends with the session otherwise.
SdSelect(p) ==
    /\ pc[p] = "sd_select"
    /\ LET kb_id == loc[p].kb_id
           found == kb_id \in DOMAIN kbs /\ kbs[kb_id].project_id = loc[p].project_id
       IN  IF ~found
           THEN /\ Return(p, base_result(p, FALSE, 0, KB_DELETE_REASON_NOT_FOUND))
                /\ UNCHANGED txKbs
           ELSE /\ ~KbRowBusy(p, kb_id)
                /\ IF kbs[kb_id].is_deleted # 0
                   THEN /\ Return(p, base_result(p, FALSE, 0, KB_DELETE_REASON_ALREADY_DELETED))
                        /\ UNCHANGED txKbs
                   ELSE IF loc[p].forbid_qa_kb /\ kbs[kb_id].qa_items
                   THEN /\ Return(p, base_result(p, FALSE, 0, KB_DELETE_REASON_QA_KB_FORBIDDEN))
                        /\ UNCHANGED txKbs
                   ELSE IF /\ loc[p].forbid_ingesting
                           /\ kbs[kb_id].ingest_status = KB_INGEST_STATUS_INGESTING
                   THEN /\ Return(p, base_result(p, FALSE, 0, KB_DELETE_REASON_INGESTING_FORBIDDEN))
                        /\ UNCHANGED txKbs
                   ELSE /\ txKbs' = [txKbs EXCEPT ![p] = (kb_id :> kbs[kb_id]) @@ @]
                        /\ Goto(p, "sd_update")
                        /\ UNCHANGED <<op, loc>>
                        /\ NoReturn
    /\ UNCHANGED <<kbs, items, nextKbId, nextItemId, txItems, advLocks, env>>

\* The item UPDATE without is_deleted = 0 among its conditions.
SdUpdateAllItems(p) ==
    /\ pc[p] = "sd_update"
    /\ LET kb_id == loc[p].kb_id
           kbHit == KbView(p)[kb_id].is_deleted = 0
           hit == KbItemIds(ItemView(p), kb_id, loc[p].project_id)
       IN  /\ ~ItemsBusy(p, hit)
           /\ Commit(p,
                     (kb_id :> [KbView(p)[kb_id] EXCEPT !.is_deleted = 1]) @@ txKbs[p],
                     [i \in hit |-> [ItemView(p)[i] EXCEPT !.is_deleted = 1]] @@ txItems[p])
           /\ Return(p, base_result(p, kbHit, Cardinality(hit),
                                    IF kbHit THEN KB_DELETE_REASON_DELETED
                                    ELSE KB_DELETE_REASON_ALREADY_DELETED))
    /\ UNCHANGED <<nextKbId, nextItemId, env>>

\* The two UPDATEs (the row, then its live items) and the caller's commit.
SdUpdate(p) ==
    /\ pc[p] = "sd_update"
    /\ LET kb_id == loc[p].kb_id
           kbHit == KbView(p)[kb_id].is_deleted = 0
           live == {i \in KbItemIds(ItemView(p), kb_id, loc[p].project_id) :
                       ItemView(p)[i].is_deleted = 0}
       IN  /\ ~ItemsBusy(p, live)
           /\ Commit(p,
                     (kb_id :> [KbView(p)[kb_id] EXCEPT !.is_deleted = 1]) @@ txKbs[p],
                     [i \in live |-> [ItemView(p)[i] EXCEPT !.is_deleted = 1]] @@ txItems[p])
           /\ Return(p, base_result(p, kbHit, Cardinality(live),
                                    IF kbHit THEN KB_DELETE_REASON_DELETED
                                    ELSE KB_DELETE_REASON_ALREADY_DELETED))
    /\ UNCHANGED <<nextKbId, nextItemId, env>>

\* -------------------------------------------------------- restore_kb_and_chunks
\* The two UPDATEs and the caller's commit.  Neither filters on is_deleted.  A
\* QA row coming back next to a live QA row of its project breaks the partial
\* unique index: IntegrityError, and nothing is stored.
Restore(p, kb_id, project_id) ==
    /\ pc[p] = "idle"
    /\ LET kbHit == kb_id \in DOMAIN kbs /\ kbs[kb_id].project_id = project_id
           back == IF kbHit THEN [kbs[kb_id] EXCEPT !.is_deleted = 0] ELSE NoLoc
           ids == KbItemIds(items, kb_id, project_id)
       IN  /\ kbHit => ~KbRowBusy(p, kb_id)
           /\ (kbHit /\ back.qa_items) => ~QaIndexBusy(p, project_id)
           /\ ~ItemsBusy(p, ids)
           /\ IF kbHit /\ QaIndexViolated(kbs, kb_id, back)
              THEN /\ ret' = ([op |-> "restore", raised |-> TRUE])
                   /\ UNCHANGED <<kbs, items>>
              ELSE /\ kbs' = IF kbHit THEN (kb_id :> back) @@ kbs ELSE kbs
                   /\ items' = [i \in ids |-> [items[i] EXCEPT !.is_deleted = 0]] @@ items
                   /\ ret' = ([op |-> "restore", raised |-> FALSE])
    /\ UNCHANGED <<nextKbId, nextItemId, txKbs, txItems, advLocks, pc, op, loc, env>>

\* ------------------------------------------------ KBService.add_single_qa_item
\* qa_text stands for _build_qa_text(question, answer) of a non-empty question
\* and answer.
StartAddOne(p, project_id, qa_text) ==
    Start(p, "add", "goc_lock",
          [NoLoc EXCEPT !.project_id = project_id, !.qa_text = qa_text,
                        !.items_at_start = items])

\* An exception inside the try block of add_single_qa_item or update_qa_item:
\* control goes to the handler.
QaRaise(p, label, error) ==
    /\ Goto(p, label)
    /\ SetLoc(p, [loc[p] EXCEPT !.error = error])

\* update_kb_ingest_status(ingesting); session.commit()
AddIngesting(p) ==
    /\ pc[p] = "add_ingesting"
    /\ ~KbRowBusy(p, loc[p].kb_id)
    /\ \E o \in Outcomes :
          /\ Spend(o)
          /\ IF o = "ok"
             THEN /\ Commit(p,
                        update_kb_ingest_status(KbView(p), loc[p].kb_id, loc[p].project_id,
                            KB_INGEST_STATUS_INGESTING, <<>>, <<>>) @@ txKbs[p],
                        txItems[p])
                  /\ Goto(p, "add_existing")
                  /\ UNCHANGED loc
             ELSE /\ QaRaise(p, "add_except", "ingesting")
                  /\ UNCHANGED <<kbs, items, txKbs, txItems, advLocks>>
    /\ UNCHANGED <<nextKbId, nextItemId, op>>
    /\ NoReturn

\* existing = get_existing_origin_texts(..., [qa_text])
AddExisting(p) ==
    /\ pc[p] = "add_existing"
    /\ LET existing == get_existing_origin_texts(ItemView(p), loc[p].kb_id,
                                                 loc[p].project_id, {loc[p].qa_text})
       IN  Goto(p, IF loc[p].qa_text \in existing THEN "add_skip" ELSE "add_embed")
    /\ UNCHANGED <<kbs, items, nextKbId, nextItemId, txKbs, txItems, advLocks,
                   op, loc, env>>
    /\ NoReturn

\* The duplicate: update_kb_ingest_status(succeeded); commit; return skipped.
AddSkip(p) ==
    /\ pc[p] = "add_skip"
    /\ ~KbRowBusy(p, loc[p].kb_id)
    /\ Commit(p,
              update_kb_ingest_status(KbView(p), loc[p].kb_id, loc[p].project_id,
                                      KB_INGEST_STATUS_SUCCEEDED, <<>>, <<>>) @@ txKbs[p],
              txItems[p])
    /\ Return(p, [op |-> "add", raised |-> FALSE, project_id |-> loc[p].project_id,
                   kb_id |-> loc[p].kb_id, item_id |-> 0, chunk_index |-> -1,
                   skipped |-> TRUE, qa_text |-> loc[p].qa_text, error |-> ""])
    /\ UNCHANGED <<nextKbId, nextItemId, env>>

\* embedding = (await get_text_embedding([qa_text]))[0]
AddEmbed(p) ==
    /\ pc[p] = "add_embed"
    /\ \E o \in Outcomes :
          /\ Spend(o)
          /\ IF o = "ok"
             THEN Goto(p, "add_index") /\ UNCHANGED loc
             ELSE QaRaise(p, "add_except", "embedding")
    /\ UNCHANGED <<kbs, items, nextKbId, nextItemId, txKbs, txItems, advLocks, op>>
    /\ NoReturn

\* chunk_index = get_next_chunk_index(...)
AddIndex(p) ==
    /\ pc[p] = "add_index"
    /\ SetLoc(p, [loc[p] EXCEPT !.chunk_index =
                     get_next_chunk_index(ItemView(p), loc[p].kb_id, loc[p].project_id)])
    /\ Goto(p, "add_upsert")
    /\ UNCHANGED <<kbs, items, nextKbId, nextItemId, txKbs, txItems, advLocks, op, env>>
    /\ NoReturn

\* upsert_chunks(... one chunk ...); item_id = get_item_id_by_chunk_index(...)
AddUpsert(p) ==
    /\ pc[p] = "add_upsert"
    /\ LET chunks == <<[chunk_index |-> loc[p].chunk_index, text |-> loc[p].qa_text]>>
           written == upsert_chunks(ItemView(p), nextItemId, loc[p].kb_id,
                                    loc[p].project_id, chunks)
       IN  /\ ~UpsertBusy(p, loc[p].kb_id, chunks)
           /\ nextItemId + Len(chunks) <= env.maxItemId + 1
           /\ \E o \in Outcomes :
                 /\ Spend(o)
                 /\ IF o = "ok" /\ ~UpsertRaises(KbView(p), loc[p].kb_id, chunks)
                    THEN /\ txItems' = [txItems EXCEPT ![p] = written @@ @]
                         /\ nextItemId' = nextItemId + Len(chunks)
                         /\ SetLoc(p, [loc[p] EXCEPT !.item_id =
                               get_item_id_by_chunk_index(written @@ ItemView(p),
                                   loc[p].kb_id, loc[p].project_id, loc[p].chunk_index)])
                         /\ Goto(p, "add_succeed")
                    ELSE /\ QaRaise(p, "add_except", "upsert")
                         /\ UNCHANGED <<txItems, nextItemId>>
    /\ UNCHANGED <<kbs, items, nextKbId, txKbs, advLocks, op>>
    /\ NoReturn

\* update_kb_ingest_status(succeeded); session.commit(); return.  When one of
\* the two fails, the upsert has been executed.
AddSucceed(p) ==
    /\ pc[p] = "add_succeed"
    /\ ~KbRowBusy(p, loc[p].kb_id)
    /\ \E o \in Outcomes :
          /\ Spend(o)
          /\ IF o = "ok"
             THEN /\ Commit(p,
                        update_kb_ingest_status(KbView(p), loc[p].kb_id, loc[p].project_id,
                            KB_INGEST_STATUS_SUCCEEDED, <<>>, <<>>) @@ txKbs[p],
                        txItems[p])
                  /\ Return(p, [op |-> "add", raised |-> FALSE,
                                project_id |-> loc[p].project_id,
                                kb_id |-> loc[p].kb_id, item_id |-> loc[p].item_id,
                                chunk_index |-> loc[p].chunk_index, skipped |-> FALSE,
                                qa_text |-> loc[p].qa_text, error |-> "",
                                \* the committed item rows this commit is applied to
                                items_before |-> items])
             ELSE /\ QaRaise(p, "add_except", "status")
                  /\ NoReturn
                  /\ UNCHANGED <<kbs, items, txKbs, txItems, advLocks, op>>
    /\ UNCHANGED <<nextKbId, nextItemId>>

\* What a call that raises leaves with its caller.  status_written: the failure
\* write was committed and hit the row; faults: how many calls failed.
QaRaised(p, faults, status_written) ==
    [op |-> op[p], raised |-> TRUE, project_id |-> loc[p].project_id,
     kb_id |-> loc[p].kb_id, error |-> loc[p].error, faults |-> faults,
     status_written |-> status_written, items_at_start |-> loc[p].items_at_start]

\* The handler that goes on to the failure write with the transaction as the
\* failed statement left it.
QaExceptNoRollback(p) ==
    /\ pc[p] \in {"add_except", "upd_except"}
    /\ Goto(p, "qa_fail_write")
    /\ UNCHANGED <<kbs, items, nextKbId, nextItemId, txKbs, txItems, advLocks, op, loc, env>>
    /\ NoReturn

\* except Exception: await session.rollback().  The call is not guarded: when
\* it raises, that exception leaves the function (and the session closes,
\* which ends its transaction).
QaExcept(p) ==
    /\ pc[p] \in {"add_except", "upd_except"}
    /\ Rollback(p)
    /\ \E o \in Outcomes :
          IF o = "ok"
          THEN /\ Goto(p, "qa_fail_write")
               /\ UNCHANGED <<op, loc, env>>
               /\ NoReturn
          ELSE /\ Return(p, QaRaised(p, env.maxFaults - env.faults + 1, FALSE))
               /\ Replenish
    /\ UNCHANGED <<nextKbId, nextItemId>>

\* update_kb_ingest_status(failed); commit (a failure of these two is
\* swallowed after a rollback); raise
QaFailWrite(p) ==
    /\ pc[p] = "qa_fail_write"
    /\ ~KbRowBusy(p, loc[p].kb_id)
    /\ LET status == update_kb_ingest_status(KbView(p), loc[p].kb_id, loc[p].project_id,
                                             KB_INGEST_STATUS_FAILED, <<>>, <<>>)
       IN  \E o \in Outcomes :
              IF o = "ok"
              THEN /\ Commit(p, status @@ txKbs[p], txItems[p])
                   /\ Return(p, QaRaised(p, env.maxFaults - env.faults, status # NoRows))
              ELSE /\ Rollback(p)
                   /\ Return(p, QaRaised(p, env.maxFaults - env.faults + 1, FALSE))
    /\ Replenish
    /\ UNCHANGED <<nextKbId, nextItemId>>

\* ---------------------------------------------------- KBService.update_qa_item
StartUpdateOne(p, project_id, item_id, qa_text) ==
    Start(p, "update", "upd_embed",
          [NoLoc EXCEPT !.project_id = project_id, !.item_id = item_id, !.qa_text = qa_text,
                        !.items_at_start = items])

\* embedding = (await get_text_embedding([qa_text]))[0], before the session
\* opens: a failure goes straight to the caller.
UpdEmbed(p) ==
    /\ pc[p] = "upd_embed"
    /\ \E o \in Outcomes :
          IF o = "ok"
          THEN Goto(p, "goc_lock") /\ UNCHANGED <<op, loc, env>> /\ NoReturn
          ELSE /\ Return(p, [op |-> "update", raised |-> TRUE,
                             project_id |-> loc[p].project_id, kb_id |-> 0,
                             error |-> ""])
               /\ Replenish
    /\ UNCHANGED <<kbs, items, nextKbId, nextItemId, txKbs, txItems, advLocks>>

\* update_kb_ingest_status(ingesting), not committed
UpdIngesting(p) ==
    /\ pc[p] = "upd_ingesting"
    /\ ~KbRowBusy(p, loc[p].kb_id)
    /\ txKbs' = [txKbs EXCEPT ![p] =
                    update_kb_ingest_status(KbView(p), loc[p].kb_id, loc[p].project_id,
                                            KB_INGEST_STATUS_INGESTING, <<>>, <<>>) @@ @]
    /\ Goto(p, "upd_item")
    /\ UNCHANGED <<kbs, items, nextKbId, nextItemId, txItems, advLocks, op, loc, env>>
    /\ NoReturn

\* updated = update_qa_item_by_id(...); raise ValueError when no row was
\* updated; else update_kb_ingest_status(succeeded); commit; return.  When the
\* status write or the commit fails, the item UPDATE has been executed.
UpdItem(p) ==
    /\ pc[p] = "upd_item"
    /\ LET written == update_qa_item_by_id(ItemView(p), loc[p].kb_id, loc[p].project_id,
                                           loc[p].item_id, loc[p].qa_text)
       IN  /\ ~ItemsBusy(p, DOMAIN written)
           /\ IF written # NoRows
              THEN \E o \in Outcomes :
                      /\ Spend(o)
                      /\ IF o = "ok"
                         THEN /\ Commit(p,
                                    update_kb_ingest_status(KbView(p), loc[p].kb_id,
                                        loc[p].project_id,
                                        KB_INGEST_STATUS_SUCCEEDED, <<>>, <<>>) @@ txKbs[p],
                                    written @@ txItems[p])
                              /\ Return(p, [op |-> "update", raised |-> FALSE,
                                            project_id |-> loc[p].project_id,
                                            kb_id |-> loc[p].kb_id,
                                            item_id |-> loc[p].item_id, error |-> ""])
                         ELSE /\ txItems' = [txItems EXCEPT ![p] = written @@ @]
                              /\ QaRaise(p, "upd_except", "status")
                              /\ NoReturn
                              /\ UNCHANGED <<kbs, items, txKbs, advLocks, op>>
              ELSE /\ QaRaise(p, "upd_except", "not_found")
                   /\ UNCHANGED <<kbs, items, txKbs, txItems, advLocks, op, env>>
                   /\ NoReturn
    /\ UNCHANGED <<nextKbId, nextItemId>>

\* ---------------------------------------------- KBService.delete_multi_qa_items
\* item_ids stands for normalized_ids, a non-empty set of positive ids.
StartDeleteMany(p, project_id, item_ids) ==
    Start(p, "delmany", "goc_lock",
          [NoLoc EXCEPT !.project_id = project_id, !.item_ids = item_ids])

\* deleted_count = soft_delete_items_by_ids(...); session.commit(); return
DelItems(p) ==
    /\ pc[p] = "del_items"
    /\ LET written == soft_delete_items_by_ids(ItemView(p), loc[p].kb_id,
                                               loc[p].project_id, loc[p].item_ids)
       IN  /\ ~ItemsBusy(p, DOMAIN written)
           /\ Commit(p, txKbs[p], written @@ txItems[p])
           /\ Return(p, [op |-> "delmany", raised |-> FALSE,
                         project_id |-> loc[p].project_id, kb_id |-> loc[p].kb_id,
                         requested_count |-> Cardinality(loc[p].item_ids),
                         deleted_count |-> Cardinality(DOMAIN written)])
    /\ UNCHANGED <<nextKbId, nextItemId, env>>

\* ---------------------------------------- _dedup_qa_chunks_by_origin_text
\* unique_chunks: the first occurrence of every text, in order.
RECURSIVE unique_chunks(_)
unique_chunks(chunks) ==
    IF chunks = <<>>
    THEN <<>>
    ELSE LET front == unique_chunks(SubSeq(chunks, 1, Len(chunks) - 1))
             chunk == chunks[Len(chunks)]
         IN  IF \E j \in 1..Len(front) : front[j].text = chunk.text
             THEN front
             ELSE Append(front, chunk)

\* The function without the pass over the list itself: only the texts found in
\* the store are dropped.
dedup_against_store_only(view, kb_id, project_id, chunks) ==
    LET existing == get_existing_origin_texts(view, kb_id, project_id,
                        {chunks[j].text : j \in 1..Len(chunks)})
        keep(chunk) == chunk.text \notin existing
        filtered == SelectSeq(chunks, keep)
    IN  [chunks |-> filtered, skipped_count |-> Len(chunks) - Len(filtered)]

\* The function without the store lookup: only the repeats inside the list are
\* dropped.
dedup_within_list_only(view, kb_id, project_id, chunks) ==
    LET unique == unique_chunks(chunks)
    IN  [chunks |-> unique, skipped_count |-> Len(chunks) - Len(unique)]

\* The pair (filtered, skipped_count) it returns.
dedup_qa_chunks_by_origin_text(view, kb_id, project_id, chunks) ==
    LET unique == unique_chunks(chunks)
        existing == get_existing_origin_texts(view, kb_id, project_id,
                        {unique[j].text : j \in 1..Len(unique)})
        keep(chunk) == chunk.text \notin existing
        filtered == SelectSeq(unique, keep)
    IN  [chunks |-> filtered, skipped_count |-> Len(chunks) - Len(filtered)]

\* ------------------------------------------------- KBService.run_kb_ingest_task
\* `file' stands for what _load_file extracts from file_path, the list of
\* segments.  The call is a re-submission when the step before it was the
\* return of a run with the same arguments that reported True.
Resubmission(kb_id, project_id, file, append_to_existing, dedup_origin_text) ==
    /\ ret.op = "run"
    /\ ret.outcome = "ok"
    /\ ret.kb_id = kb_id
    /\ ret.project_id = project_id
    /\ ret.file = file
    /\ ret.append_to_existing = append_to_existing
    /\ ret.dedup_origin_text = dedup_origin_text

StartRunSized(p, kb_id, project_id, file, append_to_existing, dedup_origin_text, e_size, u_size) ==
    /\ pc[p] = "idle"
    /\ env.runs > 0
    /\ env' = [env EXCEPT !.runs = @ - 1]
    /\ pc' = [pc EXCEPT ![p] = "run_begin"]
    /\ op' = [op EXCEPT ![p] = "run"]
    /\ loc' = [loc EXCEPT ![p] =
                  [NoLoc EXCEPT !.kb_id = kb_id, !.project_id = project_id, !.file = file,
                                !.append_to_existing = append_to_existing,
                                !.dedup_origin_text = dedup_origin_text,
                                !.items_at_start = items,
                                !.resubmitted =
                                    Resubmission(kb_id, project_id, file,
                                                 append_to_existing, dedup_origin_text),
                                !.embedding_batch_size = e_size,
                                !.db_upsert_batch_size = u_size]]
    /\ NoReturn
    /\ UNCHANGED <<kbs, items, nextKbId, nextItemId, txKbs, txItems, advLocks>>

\* The run of a service instance built as the routes build it, KBService().
StartRun(p, kb_id, project_id, file, append_to_existing, dedup_origin_text) ==
    StartRunSized(p, kb_id, project_id, file, append_to_existing, dedup_origin_text,
                  embedding_batch_size, db_upsert_batch_size)

\* What the run hands to its caller: outcome "ok" for (True, ...), "failed" for
\* (False, ...), "raised" for an exception, "died" when the process ended.
\* status_written: the final status write was committed and hit the row;
\* faults: how many calls failed during the run.
RunResult(l, outcome, status_written) ==
    [op |-> "run", outcome |-> outcome, status_written |-> status_written,
     faults |-> (env.maxFaults - env.faults)
                + (IF outcome \in {"raised", "died"} THEN 1 ELSE 0),
     kb_id |-> l.kb_id, project_id |-> l.project_id, file |-> l.file,
     append_to_existing |-> l.append_to_existing,
     dedup_origin_text |-> l.dedup_origin_text,
     total_input_count |-> l.total_input_count, total_upserted |-> l.total_upserted,
     skipped_count |-> l.skipped_count,
     error |-> l.error, failed_batch |-> l.failed_batch, written |-> l.written,
     items_at_start |-> l.items_at_start, resubmitted |-> l.resubmitted,
     embedding_batch_size |-> l.embedding_batch_size,
     db_upsert_batch_size |-> l.db_upsert_batch_size,
     start_chunk_index |-> l.start_chunk_index, chunks |-> l.chunks]

\* An exception inside the try block: control goes to the handler.
RunRaise(p, l, error) ==
    /\ Goto(p, "run_except")
    /\ SetLoc(p, [l EXCEPT !.error = error])

\* upsert_batch.append(chunk_data) for the chunks the generator has ready, up
\* to the one that fills the batch.
\* The loop that forgets the chunks of an embedding batch that do not fit into
\* the upsert batch.
FillDropsRest(l) ==
    LET room == l.db_upsert_batch_size - Len(l.upsert_batch)
        n == IF Len(l.yielded) <= room THEN Len(l.yielded) ELSE Max(0, room)
    IN  [l EXCEPT !.upsert_batch = @ \o SubSeq(l.yielded, 1, n),
                  !.yielded = <<>>]

Fill(l) ==
    LET room == l.db_upsert_batch_size - Len(l.upsert_batch)
        n == IF Len(l.yielded) <= room THEN Len(l.yielded) ELSE Max(0, room)
    IN  [l EXCEPT !.upsert_batch = @ \o SubSeq(l.yielded, 1, n),
                  !.yielded = SubSeq(l.yielded, n + 1, Len(l.yielded))]

\* The loop without the flush of the last, partly filled batch.
RunLoopPcNoFlush(l) ==
    IF Len(l.upsert_batch) >= l.db_upsert_batch_size THEN "run_upsert"
    ELSE IF l.i < Len(l.chunks) THEN "run_embed"
    ELSE "run_finish"

\* Where the loop of lines 420-432 stands once the ready chunks are appended.
RunLoopPc(l) ==
    IF Len(l.upsert_batch) >= l.db_upsert_batch_size THEN "run_upsert"
    ELSE IF l.i < Len(l.chunks) THEN "run_embed"
    ELSE IF l.upsert_batch # <<>> THEN "run_flush"
    ELSE "run_finish"

\* update_kb_ingest_status(ingesting, 0, 0); session.commit()
RunBegin(p) ==
    /\ pc[p] = "run_begin"
    /\ ~KbRowBusy(p, loc[p].kb_id)
    /\ \E o \in Outcomes :
          /\ Spend(o)
          /\ IF o = "ok"
             THEN /\ Commit(p,
                        update_kb_ingest_status(KbView(p), loc[p].kb_id, loc[p].project_id,
                            KB_INGEST_STATUS_INGESTING, <<0>>, <<0>>) @@ txKbs[p],
                        txItems[p])
                  /\ Goto(p, "run_load")
                  /\ UNCHANGED loc
             ELSE /\ RunRaise(p, loc[p], "begin")
                  /\ UNCHANGED <<kbs, items, txKbs, txItems, advLocks>>
    /\ UNCHANGED <<nextKbId, nextItemId, op>>
    /\ NoReturn

\* chunks = await self._load_file(file_path); total_input_count = len(chunks);
\* raise when there are none
RunLoad(p) ==
    /\ pc[p] = "run_load"
    /\ \E o \in Outcomes :
          /\ Spend(o)
          /\ IF o # "ok"
             THEN RunRaise(p, loc[p], "load")
             ELSE LET l == [loc[p] EXCEPT !.chunks = [j \in 1..Len(loc[p].file) |->
                                                         [text |-> loc[p].file[j]]],
                                          !.total_input_count = Len(loc[p].file)]
                  IN  IF l.chunks = <<>>
                      THEN RunRaise(p, l, "no_chunks")
                      ELSE /\ SetLoc(p, l)
                           /\ Goto(p, IF l.dedup_origin_text THEN "run_dedup"
                                      ELSE IF l.append_to_existing THEN "run_index"
                                      ELSE RunLoopPc(l))
    /\ UNCHANGED <<kbs, items, nextKbId, nextItemId, txKbs, txItems, advLocks, op>>
    /\ NoReturn

\* chunks, skipped_count = await self._dedup_qa_chunks_by_origin_text(...)
RunDedup(p) ==
    /\ pc[p] = "run_dedup"
    /\ \E o \in Outcomes :
          /\ Spend(o)
          /\ IF o # "ok"
             THEN RunRaise(p, loc[p], "dedup")
             ELSE LET d == dedup_qa_chunks_by_origin_text(ItemView(p), loc[p].kb_id,
                               loc[p].project_id, loc[p].chunks)
                      l == [loc[p] EXCEPT !.chunks = d.chunks,
                                          !.skipped_count = d.skipped_count]
                  IN  /\ SetLoc(p, l)
                      /\ Goto(p, IF l.append_to_existing THEN "run_index" ELSE RunLoopPc(l))
    /\ UNCHANGED <<kbs, items, nextKbId, nextItemId, txKbs, txItems, advLocks, op>>
    /\ NoReturn

\* start_chunk_index = await get_next_chunk_index(...)
RunIndex(p) ==
    /\ pc[p] = "run_index"
    /\ \E o \in Outcomes :
          /\ Spend(o)
          /\ IF o # "ok"
             THEN RunRaise(p, loc[p], "index")
             ELSE LET l == [loc[p] EXCEPT !.start_chunk_index =
                               get_next_chunk_index(ItemView(p), loc[p].kb_id,
                                                    loc[p].project_id)]
                  IN  /\ SetLoc(p, l)
                      /\ Goto(p, RunLoopPc(l))
    /\ UNCHANGED <<kbs, items, nextKbId, nextItemId, txKbs, txItems, advLocks, op>>
    /\ NoReturn

\* ------------------------------------------------------ _iter_processed_chunks
\* What get_text_embedding may do for n texts: raise ("error"), or return a
\* number of vectors; a number other than n takes a fault of the environment.
EmbeddingReplies(n) ==
    IF env.faults > 0
    THEN {[raised |-> TRUE, vectors |-> 0]}
         \cup {[raised |-> FALSE, vectors |-> m] : m \in {n - 1, n, n + 1}}
    ELSE {[raised |-> FALSE, vectors |-> n]}

\* The generator without the check.
NoCountCheck(embeddings, batch_texts) == FALSE

\* if len(embeddings) != len(batch_texts): raise ValueError
EmbeddingCountMismatch(embeddings, batch_texts) == embeddings # batch_texts

\* One turn of the generator's loop: the embedding call for the batch at i, the
\* count check, and the chunks it yields, one per pair of zip(batch_chunks,
\* embeddings).
RunEmbed(p) ==
    /\ pc[p] = "run_embed"
    /\ LET l == loc[p]
           last == IF l.i + l.embedding_batch_size <= Len(l.chunks)
                   THEN l.i + l.embedding_batch_size ELSE Len(l.chunks)
           batch_chunks == SubSeq(l.chunks, l.i + 1, last)
           index(offset) == l.start_chunk_index + l.i + offset
       IN  \E r \in EmbeddingReplies(Len(batch_chunks)) :
              /\ Spend(IF ~r.raised /\ r.vectors = Len(batch_chunks) THEN "ok" ELSE "error")
              /\ IF r.raised
                 THEN RunRaise(p, l, "embedding")
                 ELSE LET lb == IF r.vectors = Len(batch_chunks) THEN l
                                ELSE [l EXCEPT !.failed_batch =
                                         {index(k - 1) : k \in 1..Len(batch_chunks)}]
                      IN
                 IF EmbeddingCountMismatch(r.vectors, Len(batch_chunks))
                 THEN RunRaise(p, lb, "mismatch")
                 ELSE LET pairs == IF r.vectors <= Len(batch_chunks)
                                   THEN r.vectors ELSE Len(batch_chunks)
                          l2 == Fill([lb EXCEPT
                                   !.yielded = [k \in 1..pairs |->
                                                   [chunk_index |-> index(k - 1),
                                                    text |-> batch_chunks[k].text]],
                                   !.i = l.i + l.embedding_batch_size])
                      IN  /\ SetLoc(p, l2)
                          /\ Goto(p, RunLoopPc(l2))
    /\ UNCHANGED <<kbs, items, nextKbId, nextItemId, txKbs, txItems, advLocks, op>>
    /\ NoReturn

\* await upsert_chunks(session, kb_id, project_id, upsert_batch);
\* total_upserted += len(upsert_batch), inside the loop (then the batch is
\* cleared and the loop goes on) and after it.
RunUpsert(p) ==
    /\ pc[p] \in {"run_upsert", "run_flush"}
    /\ LET l == loc[p]
           chunks == l.upsert_batch
           written == upsert_chunks(ItemView(p), nextItemId, l.kb_id, l.project_id, chunks)
       IN  /\ ~UpsertBusy(p, l.kb_id, chunks)
           /\ nextItemId + Len(chunks) <= env.maxItemId + 1
           /\ \E o \in Outcomes :
                 /\ Spend(o)
                 /\ IF o # "ok"
                    THEN /\ RunRaise(p, l, "upsert")
                         /\ UNCHANGED <<txItems, nextItemId>>
                    ELSE IF UpsertRaises(KbView(p), l.kb_id, chunks)
                    THEN /\ RunRaise(p, l, "upsert")
                         /\ nextItemId' = nextItemId + Len(chunks)
                         /\ UNCHANGED txItems
                    ELSE LET l2 == Fill([l EXCEPT !.upsert_batch = <<>>,
                                                  !.total_upserted = @ + Len(chunks),
                                                  !.written = written @@ @])
                         IN  /\ txItems' = [txItems EXCEPT ![p] = written @@ @]
                             /\ nextItemId' = nextItemId + Len(chunks)
                             /\ SetLoc(p, l2)
                             /\ Goto(p, IF pc[p] = "run_flush" THEN "run_finish"
                                        ELSE RunLoopPc(l2))
    /\ UNCHANGED <<kbs, items, nextKbId, txKbs, advLocks, op>>
    /\ NoReturn

\* The check that something was written, then
\* update_kb_ingest_status(succeeded, total_upserted, failed_count);
\* session.commit(); return True, ...
RunFinish(p) ==
    /\ pc[p] = "run_finish"
    /\ LET l == loc[p]
           failed_count == Max(0, l.total_input_count - l.total_upserted)
           status == update_kb_ingest_status(KbView(p), l.kb_id, l.project_id,
                         KB_INGEST_STATUS_SUCCEEDED, <<l.total_upserted>>, <<failed_count>>)
       IN  IF l.total_upserted = 0 /\ ~l.dedup_origin_text
           THEN /\ RunRaise(p, l, "nothing_written")
                /\ NoReturn
                /\ UNCHANGED <<kbs, items, txKbs, txItems, advLocks, op, env>>
           ELSE /\ ~KbRowBusy(p, l.kb_id)
                /\ \E o \in Outcomes :
                      IF o = "ok"
                      THEN /\ Commit(p, status @@ txKbs[p], txItems[p])
                           /\ Return(p, RunResult(l, "ok", status # NoRows))
                           /\ Replenish
                      ELSE /\ RunRaise(p, l, "status")
                           /\ Spend(o)
                           /\ NoReturn
                              /\ UNCHANGED <<kbs, items, txKbs, txItems, advLocks, op>>
    /\ UNCHANGED <<nextKbId, nextItemId>>

\* A handler whose rollback never answers: the task stays where it is.
RunExceptWaits(p) ==
    /\ pc[p] = "run_except"
    /\ Rollback(p)
    /\ NoReturn
    /\ UNCHANGED <<nextKbId, nextItemId, pc, op, loc, env>>

\* except Exception as e: await session.rollback().  The call is not guarded:
\* when it raises, the exception leaves the function (and the session closes,
\* which ends its transaction).
RunExcept(p) ==
    /\ pc[p] = "run_except"
    /\ Rollback(p)
    /\ \E o \in Outcomes :
          IF o = "ok"
          THEN /\ Goto(p, "run_fail_write")
               /\ UNCHANGED <<op, loc, env>>
               /\ NoReturn
          ELSE /\ Return(p, RunResult(loc[p], "raised", FALSE))
               /\ Replenish
    /\ UNCHANGED <<nextKbId, nextItemId>>

\* update_kb_ingest_status(failed, 0, max(0, total_input_count));
\* session.commit(); return False, ...   A failure of the two goes to the inner
\* handler.
RunFailWrite(p) ==
    /\ pc[p] = "run_fail_write"
    /\ ~KbRowBusy(p, loc[p].kb_id)
    /\ LET l == loc[p]
           failed_count == Max(0, l.total_input_count)
           status == update_kb_ingest_status(KbView(p), l.kb_id, l.project_id,
                         KB_INGEST_STATUS_FAILED, <<0>>, <<failed_count>>)
       IN  \E o \in Outcomes :
              IF o = "ok"
              THEN /\ Commit(p, status @@ txKbs[p], txItems[p])
                   /\ Return(p, RunResult(l, "failed", status # NoRows))
                   /\ Replenish
              ELSE /\ Goto(p, "run_swallow")
                   /\ Spend(o)
                   /\ NoReturn
                      /\ UNCHANGED <<kbs, items, txKbs, txItems, advLocks, op, loc>>
    /\ UNCHANGED <<nextKbId, nextItemId>>

\* except Exception: await session.rollback(); then return False, ...  This
\* rollback is not guarded either.
RunSwallow(p) ==
    /\ pc[p] = "run_swallow"
    /\ Rollback(p)
    /\ \E o \in Outcomes :
          Return(p, RunResult(loc[p], IF o = "ok" THEN "failed" ELSE "raised", FALSE))
    /\ Replenish
    /\ UNCHANGED <<nextKbId, nextItemId>>

\* The process running the task dies after some upsert statement of the run:
\* the store ends the session's transaction.
RunDie(p) ==
    /\ op[p] = "run"
    /\ loc[p].written # NoRows
    /\ env.faults > 0
    /\ Replenish
    /\ Rollback(p)
    /\ Return(p, RunResult(loc[p], "died", FALSE))
    /\ UNCHANGED <<nextKbId, nextItemId>>

\* -------------------------------------------------------------- upsert_chunks
\* One call of upsert_chunks with any row list, and the caller's commit.  A
\* statement that raises stores nothing.
Upsert(p, kb_id, project_id, chunks) ==
    /\ pc[p] = "idle"
    /\ ~UpsertBusy(p, kb_id, chunks)
    /\ nextItemId + Len(chunks) <= env.maxItemId + 1
    /\ nextItemId' = nextItemId + Len(chunks)
    /\ LET raised == UpsertRaises(kbs, kb_id, chunks)
       IN  /\ items' = IF raised THEN items
                       ELSE upsert_chunks(items, nextItemId, kb_id, project_id, chunks) @@ items
           /\ ret' = [op |-> "upsert", raised |-> raised, kb_id |-> kb_id,
                      project_id |-> project_id, chunks |-> chunks, before |-> items]
    /\ UNCHANGED <<kbs, nextKbId, txKbs, txItems, advLocks, pc, op, loc, env>>

\* upsert_chunks as the operations of the service call it: with the project id
\* under which they obtained the knowledge base.
UpsertKb(p, kb_id, chunks) ==
    \E project_id \in Projects :
        /\ kb_id \in DOMAIN kbs => kbs[kb_id].project_id = project_id
        /\ Upsert(p, kb_id, project_id, chunks)

\* One call of soft_delete_items_by_ids, and the caller's commit.
SoftDeleteItems(p, kb_id, project_id, item_ids) ==
    /\ pc[p] = "idle"
    /\ LET written == soft_delete_items_by_ids(items, kb_id, project_id, item_ids)
       IN  /\ ~ItemsBusy(p, DOMAIN written)
           /\ items' = written @@ items
           /\ ret' = [op |-> "soft_delete_items", kb_id |-> kb_id, project_id |-> project_id,
                      deleted_count |-> Cardinality(DOMAIN written),
                      item_ids |-> item_ids, items_before |-> items,
                      \* the step before was the same call
                      repeated |-> /\ ret.op = "soft_delete_items"
                                   /\ ret.kb_id = kb_id
                                   /\ ret.project_id = project_id
                                   /\ ret.item_ids = item_ids]
    /\ UNCHANGED <<kbs, nextKbId, nextItemId, txKbs, txItems, advLocks, pc, op, loc, env>>

\* One call of get_next_chunk_index and what it returns.
NextChunkIndex(p, kb_id, project_id) ==
    /\ pc[p] = "idle"
    /\ ret' = [op |-> "next_chunk_index", kb_id |-> kb_id, project_id |-> project_id,
               chunk_index |-> get_next_chunk_index(items, kb_id, project_id)]
    /\ UNCHANGED <<kbs, items, nextKbId, nextItemId, txKbs, txItems, advLocks, pc, op, loc, env>>

\* ------------------------------------------------ KBService.retrieve_hybrid
\* One element of the list a branch returns (its score, source and date play no
\* part in the merge).
Hit(view, i) == [id |-> i, text |-> view[i].origin_text]

\* The WHERE clause without the project.
RetrievableOfAnyProject(view, project_id) == {i \in DOMAIN view : view[i].is_deleted = 0}

\* WHERE Item.project_id == project_id AND Item.is_deleted == 0
Retrievable(view, project_id) ==
    {i \in DOMAIN view : view[i].project_id = project_id /\ view[i].is_deleted = 0}

\* The orders in which a statement may return n of the rows S: the vectors and
\* the ranks are not part of the model, so any order is possible.
Rankings(S, n) == {r \in [1..n -> S] : \A a, b \in 1..n : r[a] = r[b] => a = b}

\* retrieve_dense: ORDER BY distance LIMIT top_k over the retrievable rows, every
\* one of which has a distance.  The lists it may return.
retrieve_dense(view, project_id, top_k) ==
    LET S == Retrievable(view, project_id)
        n == IF top_k <= Cardinality(S) THEN top_k ELSE Cardinality(S)
    IN  {[j \in 1..n |-> Hit(view, r[j])] : r \in Rankings(S, n)}

\* retrieve_bm25: the same over the rows whose fts matches the query, which may
\* be any of the retrievable rows.
retrieve_bm25(view, project_id, top_k) ==
    LET S == Retrievable(view, project_id)
        most == IF top_k <= Cardinality(S) THEN top_k ELSE Cardinality(S)
    IN  UNION {{[j \in 1..n |-> Hit(view, r[j])] : r \in Rankings(S, n)} : n \in 0..most}

\* The merge that only appends.
merged_results_by_concatenation(dense_results, bm25_results) ==
    dense_results \o bm25_results

\* remove_dups_ids = {r["id"] for r in dense_results};
\* merged_results = dense_results + [r for r in bm25_results if r["id"] not in
\* remove_dups_ids]
merged_results(dense_results, bm25_results) ==
    LET remove_dups_ids == {dense_results[j].id : j \in 1..Len(dense_results)}
        keep(r) == r.id \notin remove_dups_ids
    IN  dense_results \o SelectSeq(bm25_results, keep)

\* The whole call: the embedding of the query (which may raise), the two
\* statements in one transaction, the merge.
RetrieveHybrid(p, project_id, top_k_embedding, top_k_bm25) ==
    /\ pc[p] = "idle"
    /\ \E o \in Outcomes :
          IF o # "ok"
          THEN ret' = [op |-> "retrieve", raised |-> TRUE, project_id |-> project_id]
          ELSE \E dense_results \in retrieve_dense(items, project_id, top_k_embedding),
                  bm25_results \in retrieve_bm25(items, project_id, top_k_bm25) :
                  ret' = [op |-> "retrieve", raised |-> FALSE, project_id |-> project_id,
                          dense |-> dense_results, bm25 |-> bm25_results,
                          merged_results |-> merged_results(dense_results, bm25_results),
                          top_k_embedding |-> top_k_embedding, top_k_bm25 |-> top_k_bm25,
                          kbs_before |-> kbs, items_before |-> items]
    /\ Replenish
    /\ UNCHANGED <<kbs, items, nextKbId, nextItemId, txKbs, txItems, advLocks, pc, op, loc>>

\* ------------------------------------------------------------------ states
\* The state after construction: empty tables, idle sessions, and environment e.
InitWith(e) ==
    /\ kbs = NoRows
    /\ items = NoRows
    /\ nextKbId = 1
    /\ nextItemId = 1
    /\ txKbs = [p \in Procs |-> NoRows]
    /\ txItems = [p \in Procs |-> NoRows]
    /\ advLocks = [p \in Procs |-> {}]
    /\ pc = [p \in Procs |-> "idle"]
    /\ op = [p \in Procs |-> "none"]
    /\ loc = [p \in Procs |-> NoLoc]
    /\ ret = NoRet
    /\ env = e

\* ------------------------------------------- concurrent get-or-create calls
InitGoc ==
    InitWith([faults |-> 0, maxFaults |-> 0, runs |-> 0,
              maxKbId |-> MaxKbId, maxItemId |-> 0])

NextGoc ==
    \E p \in Procs :
        \/ \E project_id \in Projects : StartGetOrCreate(p, project_id)
        \/ GocLock(p)
        \/ GocSelect(p)
        \/ GocInsert(p)
        \/ GocCommit(p)

SpecGoc == InitGoc /\ [][NextGoc]_vars

\* The live QA rows of a project among the committed rows.
LiveQaKbs(project_id) ==
    {k \in DOMAIN kbs : QaIndexed(kbs[k]) /\ kbs[k].project_id = project_id}

\* C2: under every interleaving of concurrent get-or-create calls that starts
\* with no QA knowledge base, a call that returns does not raise, exactly one
\* live QA row of its project exists then and the call returns that row's id;
\* no project ever gets a second row, so all the calls of a project return the
\* same id.
C2_ConcurrentGetOrCreate ==
    /\ \A project_id \in Projects :
          Cardinality({k \in DOMAIN kbs : kbs[k].project_id = project_id}) <= 1
    /\ ret.op = "goc" =>
          /\ ~ret.raised
          /\ LiveQaKbs(ret.project_id) = {ret.kb_id}

\* A call returns the row's id while the two other sessions are inside calls
\* for the same project, one of them waiting for the advisory lock.
C2_Witness ==
    /\ ret.op = "goc"
    /\ ~ret.raised
    /\ LiveQaKbs(ret.project_id) = {ret.kb_id}
    /\ Cardinality({q \in Procs : op[q] = "goc" /\ loc[q].project_id = ret.project_id}) = 2
    /\ \E q \in Procs : pc[q] = "goc_lock" /\ loc[q].project_id = ret.project_id

\* ------------- the registry and the single-item QA operations, run concurrently
Sessions == 1..NSessions
SharedProjects == 1..NSharedProjects
SharedTexts == {"x"}

Init ==
    InitWith([faults |-> 0, maxFaults |-> 0, runs |-> 0,
              maxKbId |-> MaxKbId, maxItemId |-> NSharedItemIds])

Next ==
    \E p \in Sessions :
        \/ \E project_id \in SharedProjects : StartGetOrCreate(p, project_id)
        \/ GocLock(p)
        \/ GocSelect(p)
        \/ GocInsert(p)
        \/ GocRequery(p)
        \/ GocCommit(p)
        \/ \E project_id \in SharedProjects, qa_items \in BOOLEAN :
                Create(p, project_id, qa_items, KB_INGEST_STATUS_INGESTING)
        \/ \E kb_id \in 1..MaxKbId, project_id \in SharedProjects,
              forbid_qa_kb \in BOOLEAN, forbid_ingesting \in BOOLEAN :
                StartSoftDelete(p, kb_id, project_id, forbid_qa_kb, forbid_ingesting)
        \/ SdSelect(p)
        \/ SdUpdate(p)
        \/ \E kb_id \in 1..MaxKbId, project_id \in SharedProjects :
                Restore(p, kb_id, project_id)
        \/ \E project_id \in SharedProjects, qa_text \in SharedTexts :
                StartAddOne(p, project_id, qa_text)
        \/ AddIngesting(p)
        \/ AddExisting(p)
        \/ AddSkip(p)
        \/ AddEmbed(p)
        \/ AddIndex(p)
        \/ AddUpsert(p)
        \/ AddSucceed(p)
        \/ QaExcept(p)
        \/ QaFailWrite(p)
        \/ \E project_id \in SharedProjects, item_id \in 1..NSharedItemIds,
              qa_text \in SharedTexts :
                StartUpdateOne(p, project_id, item_id, qa_text)
        \/ UpdEmbed(p)
        \/ UpdIngesting(p)
        \/ UpdItem(p)
        \/ \E project_id \in SharedProjects,
              item_ids \in (SUBSET (1..NSharedItemIds)) \ {{}} :
                StartDeleteMany(p, project_id, item_ids)
        \/ DelItems(p)

Spec == Init /\ [][Next]_vars

\* C1: in every reachable state, whatever get-or-create, create, soft_delete
\* (with any flags), restore and the QA item operations have done and however
\* they interleave, each project has at most one knowledge_base row with
\* qa_items = true and is_deleted = 0; this holds of the committed rows and of
\* what every session reads.
C1_OneLiveQaKbPerProject ==
    /\ \A project_id \in Projects : Cardinality(LiveQaKbs(project_id)) <= 1
    /\ \A p \in Procs : \A k1, k2 \in DOMAIN KbView(p) :
          (/\ QaIndexed(KbView(p)[k1])
           /\ QaIndexed(KbView(p)[k2])
           /\ KbView(p)[k1].project_id = KbView(p)[k2].project_id) => k1 = k2

\* A restore was just refused: the project has a soft-deleted QA row and a
\* live one made after the delete.
C1_Witness ==
    /\ ret.op = "restore"
    /\ ret.raised
    /\ \E k1, k2 \in DOMAIN kbs :
          /\ kbs[k1].qa_items /\ kbs[k1].is_deleted = 1
          /\ QaIndexed(kbs[k2])
          /\ kbs[k1].project_id = kbs[k2].project_id

\* C3: every change of a knowledge base's committed ingest_status, the one
\* other transactions observe, is one of ingesting -> succeeded, ingesting ->
\* failed, succeeded -> ingesting, failed -> ingesting: a change has ingesting
\* on one of its two sides.
C3_StatusTransitions ==
    [][\A k \in DOMAIN kbs :
          LET before == kbs[k].ingest_status
              after == kbs'[k].ingest_status
          IN  before # after =>
                 \/ before = KB_INGEST_STATUS_INGESTING
                 \/ after = KB_INGEST_STATUS_INGESTING]_vars

\* C20: no session is at a call of the embedding service (in add_one, in
\* update_one, in a run) while its transaction holds an advisory lock; and a
\* session between operations holds none, so nothing that starts afterwards (a
\* run after get-or-create) inherits one.
C20_NoLockAcrossEmbedding ==
    \A p \in Procs :
        pc[p] \in {"add_embed", "upd_embed", "run_embed", "idle"} => advLocks[p] = {}

\* A session is at the embedding call of add_one while the other one holds the
\* advisory lock of the same project.
C20_Witness ==
    \E p, q \in Procs :
        /\ pc[p] = "add_embed"
        /\ advLocks[p] = {}
        /\ loc[p].project_id \in advLocks[q]

\* ----------------------- ingestion runs of one session, the environment failing
Files == UNION {[1..n -> Texts] : n \in 0..MaxChunks}
RunProjects == 1..NRunProjects

InitRun ==
    InitWith([faults |-> MaxFaults, maxFaults |-> MaxFaults, runs |-> MaxRuns,
              maxKbId |-> NRunKbIds, maxItemId |-> MaxItemId])

NextRun ==
    \E p \in {1} :
        \/ \E project_id \in RunProjects :
                Create(p, project_id, FALSE, KB_INGEST_STATUS_INGESTING)
        \/ \E kb_id \in 1..MaxKbId, project_id \in RunProjects, forbid_ingesting \in BOOLEAN :
                StartSoftDelete(p, kb_id, project_id, TRUE, forbid_ingesting)
        \/ SdSelect(p)
        \/ SdUpdate(p)
        \/ \E kb_id \in 1..MaxKbId, project_id \in RunProjects, file \in Files,
              append_to_existing \in BOOLEAN, dedup_origin_text \in BOOLEAN :
                StartRun(p, kb_id, project_id, file, append_to_existing, dedup_origin_text)
        \/ RunBegin(p)
        \/ RunLoad(p)
        \/ RunDedup(p)
        \/ RunIndex(p)
        \/ RunEmbed(p)
        \/ RunUpsert(p)
        \/ RunFinish(p)
        \/ RunExcept(p)
        \/ RunFailWrite(p)
        \/ RunSwallow(p)
        \/ RunDie(p)

SpecRun == InitRun /\ [][NextRun]_vars

\* The run that just ended was given a knowledge base whose row exists, is of
\* the project given and is not soft-deleted.
RunKbLive ==
    /\ ret.kb_id \in DOMAIN kbs
    /\ kbs[ret.kb_id].project_id = ret.project_id
    /\ kbs[ret.kb_id].is_deleted = 0

RunReturned == ret.op = "run" /\ ret.outcome \in {"ok", "failed"}

\* C4, as stated: whenever the run function returns for a knowledge base,
\* with ok = true or ok = false, that knowledge base's ingest_status is not
\* ingesting.
C4_NotIngestingOnReturn ==
    (RunReturned /\ RunKbLive) =>
        kbs[ret.kb_id].ingest_status # KB_INGEST_STATUS_INGESTING

\* C4, amended: whenever the run function returns and the status write it ends
\* with was committed on the knowledge base's row, the row's ingest_status is
\* succeeded when ok = true and failed when ok = false, so it is not ingesting;
\* and on a live row only a failed final write (which is swallowed) leaves the
\* status unwritten.
C4_NotIngestingWhenWritten ==
    RunReturned =>
        /\ ret.status_written =>
              /\ RunKbLive
              /\ kbs[ret.kb_id].ingest_status =
                    IF ret.outcome = "ok" THEN KB_INGEST_STATUS_SUCCEEDED
                    ELSE KB_INGEST_STATUS_FAILED
        /\ (RunKbLive /\ ~ret.status_written) => (ret.outcome = "failed" /\ ret.faults >= 1)

\* The run failed in the embedding call, and its failure write went through.
C4_Witness ==
    /\ RunReturned
    /\ ret.error = "embedding"
    /\ ret.status_written
    /\ kbs[ret.kb_id].ingest_status = KB_INGEST_STATUS_FAILED

\* C5: for every run that returns, succeeded or failed, the success_count and
\* failed_count it records on the knowledge base add up to total_input_count,
\* the number of segments the run loaded (all the segments of the file once
\* the load is done, 0 for a run that fails before).
C5_CountsAddUp ==
    RunReturned =>
        /\ ret.total_input_count =
              IF ret.error \in {"begin", "load"} THEN 0 ELSE Len(ret.file)
        /\ ret.status_written =>
              kbs[ret.kb_id].success_count + kbs[ret.kb_id].failed_count
                  = ret.total_input_count

\* A run with de-duplication wrote some segments and skipped others, and
\* recorded both.
C5_Witness ==
    /\ RunReturned
    /\ ret.outcome = "ok"
    /\ ret.status_written
    /\ kbs[ret.kb_id].success_count >= 1
    /\ kbs[ret.kb_id].failed_count >= 1
    /\ kbs[ret.kb_id].success_count + kbs[ret.kb_id].failed_count = Len(ret.file)

\* C6: the run never raises to its caller; whatever fails (loading,
\* de-duplication, embedding, upsert, the success write, the rollback, the
\* failure write) it returns a tuple.
C6_RunNeverRaises == ret.op = "run" => ret.outcome # "raised"

\* C7: when the embedding service returns, for a batch of a run, a number of
\* vectors different from the number of texts, the run does not succeed, it
\* returns (False, ...) unless a later call fails too, the status it writes is
\* failed with success_count = 0 and failed_count = total_input_count (and it
\* does write it on a live row when nothing else fails), and no item row of
\* that batch is written.
C7_EmbeddingCountMismatch ==
    (ret.op = "run" /\ ret.failed_batch # {}) =>
        /\ ret.outcome # "ok"
        /\ ret.faults = 1 => ret.outcome = "failed"
        /\ \A i \in DOMAIN items :
              (items[i].kb_id = ret.kb_id /\ items[i].chunk_index \in ret.failed_batch) =>
                  (i \in DOMAIN ret.items_at_start /\ items[i] = ret.items_at_start[i])
        /\ ret.status_written =>
              /\ kbs[ret.kb_id].ingest_status = KB_INGEST_STATUS_FAILED
              /\ kbs[ret.kb_id].success_count = 0
              /\ kbs[ret.kb_id].failed_count = ret.total_input_count
        /\ (ret.faults = 1 /\ RunKbLive) => ret.status_written

\* The second embedding batch of a run came back with the wrong number of
\* vectors after the first one had been upserted: the run returned False and
\* the row reads failed, 0, total_input_count.
C7_Witness ==
    /\ ret.op = "run"
    /\ ret.failed_batch # {}
    /\ ret.outcome = "failed"
    /\ ret.status_written
    /\ ret.total_upserted >= 1
    /\ kbs[ret.kb_id].ingest_status = KB_INGEST_STATUS_FAILED
    /\ kbs[ret.kb_id].failed_count = ret.total_input_count
    /\ ret.total_input_count >= 2

\* The run ended without success after one of its upsert statements had been
\* executed.
RunLostAfterUpsert ==
    /\ ret.op = "run"
    /\ ret.outcome \in {"failed", "raised", "died"}
    /\ ret.written # NoRows

C16_DedupWritesNewTextsOnce ==
    (ret.op = "run" /\ ret.outcome = "ok" /\ ret.dedup_origin_text) =>
        LET held == {i \in DOMAIN ret.items_at_start :
                        /\ ret.items_at_start[i].kb_id = ret.kb_id
                        /\ ret.items_at_start[i].project_id = ret.project_id
                        /\ ret.items_at_start[i].is_deleted = 0}
            new == {ret.file[j] : j \in 1..Len(ret.file)}
                       \ {ret.items_at_start[i].origin_text : i \in held}
            first(t) == Min({j \in 1..Len(ret.file) : ret.file[j] = t})
            rows == ret.written
        IN  /\ {rows[i].origin_text : i \in DOMAIN rows} = new
            /\ Cardinality(DOMAIN rows) = Cardinality(new)
            /\ \A i \in DOMAIN rows :
                  /\ i \in DOMAIN items
                  /\ items[i] = rows[i]
                  /\ rows[i].kb_id = ret.kb_id
                  /\ rows[i].is_deleted = 0
            /\ \A i1, i2 \in DOMAIN rows :
                  rows[i1].chunk_index < rows[i2].chunk_index
                      <=> first(rows[i1].origin_text) < first(rows[i2].origin_text)
            /\ ret.total_input_count = Len(ret.file)
            /\ ret.status_written =>
                  /\ kbs[ret.kb_id].ingest_status = KB_INGEST_STATUS_SUCCEEDED
                  /\ kbs[ret.kb_id].success_count = Cardinality(new)
                  /\ kbs[ret.kb_id].failed_count = Len(ret.file) - Cardinality(new)

\* The input [x, x, y] on a knowledge base that held x: one row written, for y,
\* and 2 recorded as not written.
C16_Witness ==
    /\ ret.op = "run"
    /\ ret.outcome = "ok"
    /\ ret.dedup_origin_text
    /\ ret.file = <<"x", "x", "y">>
    /\ \E i \in DOMAIN ret.items_at_start :
          /\ ret.items_at_start[i].kb_id = ret.kb_id
          /\ ret.items_at_start[i].origin_text = "x"
          /\ ret.items_at_start[i].is_deleted = 0
    /\ Cardinality(DOMAIN ret.written) = 1
    /\ \A i \in DOMAIN ret.written : ret.written[i].origin_text = "y"
    /\ ret.status_written
    /\ kbs[ret.kb_id].success_count = 1
    /\ kbs[ret.kb_id].failed_count = 2

\* C17: a run without append and without de-duplication over n >= 1 segments,
\* on a live knowledge base that has no item row, during which no call fails
\* (the embedding service returns one vector per text), returns True; the
\* status is succeeded with success_count = n and failed_count = 0, and the
\* knowledge base has exactly n item rows, the one at chunk_index i holding the
\* i-th segment (counting from 0), none soft-deleted.
C17_FreshRun ==
    (/\ ret.op = "run"
     /\ ~ret.append_to_existing
     /\ ~ret.dedup_origin_text
     /\ Len(ret.file) >= 1
     /\ ret.faults = 0
     /\ RunKbLive
     /\ \A i \in DOMAIN ret.items_at_start : ret.items_at_start[i].kb_id # ret.kb_id) =>
        LET n == Len(ret.file)
            rows == {i \in DOMAIN items : items[i].kb_id = ret.kb_id}
        IN  /\ ret.outcome = "ok"
            /\ ret.status_written
            /\ kbs[ret.kb_id].ingest_status = KB_INGEST_STATUS_SUCCEEDED
            /\ kbs[ret.kb_id].success_count = n
            /\ kbs[ret.kb_id].failed_count = 0
            /\ Cardinality(rows) = n
            /\ \A j \in 1..n : \E i \in rows :
                  /\ items[i].chunk_index = j - 1
                  /\ items[i].origin_text = ret.file[j]
                  /\ items[i].project_id = ret.project_id
                  /\ items[i].is_deleted = 0

\* Three segments went in: succeeded, 3 and 0, rows at 0, 1 and 2.
C17_Witness ==
    /\ ret.op = "run"
    /\ ~ret.append_to_existing
    /\ ~ret.dedup_origin_text
    /\ ret.faults = 0
    /\ ret.outcome = "ok"
    /\ ret.file = <<"x", "y", "x">>
    /\ ret.items_at_start = NoRows
    /\ kbs[ret.kb_id].ingest_status = KB_INGEST_STATUS_SUCCEEDED
    /\ kbs[ret.kb_id].success_count = 3
    /\ kbs[ret.kb_id].failed_count = 0
    /\ {items[i].chunk_index : i \in DOMAIN items} = {0, 1, 2}

\* ------------------------------------------------ upsert_chunks on any row list
RowLists ==
    UNION {[1..n -> [chunk_index : 0..MaxChunkIndex, text : Texts]] : n \in 1..MaxRows}

InitUpsert ==
    InitWith([faults |-> 0, maxFaults |-> 0, runs |-> 0, maxKbId |-> NRunKbIds,
              maxItemId |-> MaxItemId])

NextUpsert ==
    \E p \in {1} :
        \/ \E project_id \in Projects : Create(p, project_id, FALSE, KB_INGEST_STATUS_INGESTING)
        \/ \E kb_id \in 1..MaxKbId, project_id \in Projects :
                StartSoftDelete(p, kb_id, project_id, TRUE, FALSE)
        \/ SdSelect(p)
        \/ SdUpdate(p)
        \/ \E kb_id \in 1..MaxKbId, project_id \in Projects, chunks \in RowLists :
                Upsert(p, kb_id, project_id, chunks)

SpecUpsert == InitUpsert /\ [][NextUpsert]_vars

\* The rows of `rows' that hold (kb_id, chunk_index).
RowsAt(rows, kb_id, chunk_index) ==
    {i \in DOMAIN rows : rows[i].kb_id = kb_id /\ rows[i].chunk_index = chunk_index}

\* C9: upsert_chunks is idempotent.  After a call with any row list on any
\* table, a second call with the same rows stores nothing new (the table is
\* the one the first call left), and the table holds exactly one row per
\* chunk_index of the list, with the values given and is_deleted = 0; a call
\* that raises leaves the table as it was.
C9_UpsertIdempotent ==
    ret.op = "upsert" =>
        IF ret.raised
        THEN items = ret.before
        ELSE /\ upsert_chunks(items, nextItemId, ret.kb_id, ret.project_id, ret.chunks)
                    @@ items = items
             /\ \A j \in 1..Len(ret.chunks) :
                   LET at == RowsAt(items, ret.kb_id, ret.chunks[j].chunk_index)
                   IN  /\ Cardinality(at) = 1
                       /\ \A i \in at :
                             /\ items[i].origin_text = ret.chunks[j].text
                             /\ items[i].project_id = ret.project_id
                             /\ items[i].is_deleted = 0

\* A call that overwrote a row already holding the same values, as the second
\* of two identical calls does, next to a call's worth of lost sequence ids.
C9_Witness ==
    /\ ret.op = "upsert"
    /\ ~ret.raised
    /\ Len(ret.chunks) = 2
    /\ \A j \in 1..Len(ret.chunks) :
          \E i \in RowsAt(ret.before, ret.kb_id, ret.chunks[j].chunk_index) :
              /\ ret.before[i].origin_text = ret.chunks[j].text
              /\ ret.before[i].project_id = ret.project_id
              /\ ret.before[i].is_deleted = 0
    /\ items = ret.before

\* C10: in every reachable state at most one item row holds a given (kb_id,
\* chunk_index), soft-deleted rows counted; and an upsert at an index whose
\* row exists, deleted or not, adds no row: that row keeps its id, takes the
\* values given and has is_deleted = 0.
C10_OneRowPerChunkIndex ==
    /\ \A i1, i2 \in DOMAIN items :
          (items[i1].kb_id = items[i2].kb_id
              /\ items[i1].chunk_index = items[i2].chunk_index) => i1 = i2
    /\ (ret.op = "upsert" /\ ~ret.raised) =>
          \A j \in 1..Len(ret.chunks) :
              \A i \in RowsAt(ret.before, ret.kb_id, ret.chunks[j].chunk_index) :
                  /\ RowsAt(items, ret.kb_id, ret.chunks[j].chunk_index) = {i}
                  /\ items[i].origin_text = ret.chunks[j].text
                  /\ items[i].is_deleted = 0

\* An upsert just overwrote a soft-deleted row that held another text, and
\* added a row at a free index in the same statement.
C10_Witness ==
    /\ ret.op = "upsert"
    /\ ~ret.raised
    /\ \E j \in 1..Len(ret.chunks) :
          \E i \in RowsAt(ret.before, ret.kb_id, ret.chunks[j].chunk_index) :
              /\ ret.before[i].is_deleted = 1
              /\ ret.before[i].origin_text # ret.chunks[j].text
              /\ items[i].is_deleted = 0
    /\ \E j \in 1..Len(ret.chunks) :
          RowsAt(ret.before, ret.kb_id, ret.chunks[j].chunk_index) = {}

\* -------- the store calls on a knowledge base: upsert, soft delete, restore
\* The row lists of the upsert calls; what the rows hold plays no part here.
IndexRows ==
    UNION {[1..n -> [chunk_index : 0..MaxChunkIndex, text : {"x"}]] : n \in 1..MaxRows}

InitStore ==
    InitWith([faults |-> 0, maxFaults |-> 0, runs |-> 0, maxKbId |-> NRunKbIds,
              maxItemId |-> MaxItemId])

NextStore ==
    \E p \in {1} :
        \/ \E project_id \in Projects, qa_items \in BOOLEAN,
              ingest_status \in KB_INGEST_STATUS_VALUES :
                Create(p, project_id, qa_items, ingest_status)
        \/ \E kb_id \in 1..MaxKbId, project_id \in Projects,
              forbid_qa_kb \in BOOLEAN, forbid_ingesting \in BOOLEAN :
                StartSoftDelete(p, kb_id, project_id, forbid_qa_kb, forbid_ingesting)
        \/ SdSelect(p)
        \/ SdUpdate(p)
        \/ \E kb_id \in 1..MaxKbId, project_id \in Projects : Restore(p, kb_id, project_id)
        \/ \E kb_id \in 1..MaxKbId, chunks \in IndexRows : UpsertKb(p, kb_id, chunks)
        \/ \E kb_id \in 1..MaxKbId, project_id \in Projects,
              item_id \in 1..MaxItemId :
                SoftDeleteItems(p, kb_id, project_id, {item_id})
        \/ \E kb_id \in 1..MaxKbId, project_id \in Projects :
                NextChunkIndex(p, kb_id, project_id)

SpecStore == InitStore /\ [][NextStore]_vars

\* The item rows of knowledge base kb_id, whatever else they hold.
RowsOfKb(rows, kb_id) == {i \in DOMAIN rows : rows[i].kb_id = kb_id}

C12_SoftDeleteReason ==
    (ret.op = "delete" /\ ret.forbid_qa_kb /\ ret.forbid_ingesting) =>
        LET k == ret.kb_id
            found == k \in DOMAIN ret.kbs_before
                        /\ ret.kbs_before[k].project_id = ret.project_id
            row == ret.kbs_before[k]
        IN  ret.reason =
                IF ~found THEN KB_DELETE_REASON_NOT_FOUND
                ELSE IF row.is_deleted # 0 THEN KB_DELETE_REASON_ALREADY_DELETED
                ELSE IF row.qa_items THEN KB_DELETE_REASON_QA_KB_FORBIDDEN
                ELSE IF row.ingest_status = KB_INGEST_STATUS_INGESTING
                     THEN KB_DELETE_REASON_INGESTING_FORBIDDEN
                ELSE KB_DELETE_REASON_DELETED

\* A call with the default flags on a soft-deleted QA row whose status is
\* ingesting: all three refusals apply and the call answered already_deleted.
C12_Witness ==
    /\ ret.op = "delete"
    /\ ret.forbid_qa_kb
    /\ ret.forbid_ingesting
    /\ ret.reason = KB_DELETE_REASON_ALREADY_DELETED
    /\ ret.kbs_before[ret.kb_id].qa_items
    /\ ret.kbs_before[ret.kb_id].ingest_status = KB_INGEST_STATUS_INGESTING
    /\ ret.kbs_before[ret.kb_id].is_deleted = 1

\* C13: a soft_delete call (any flags) whose reason is not deleted has one of
\* the reasons not_found, already_deleted, qa_kb_forbidden, ingesting_forbidden,
\* leaves every knowledge_base row and every item row as it was, and reports
\* kb_deleted = false and item_deleted_count = 0.
C13_RefusedDeleteChangesNothing ==
    (ret.op = "delete" /\ ret.reason # KB_DELETE_REASON_DELETED) =>
        /\ ret.reason \in {KB_DELETE_REASON_NOT_FOUND, KB_DELETE_REASON_ALREADY_DELETED,
                           KB_DELETE_REASON_QA_KB_FORBIDDEN,
                           KB_DELETE_REASON_INGESTING_FORBIDDEN}
        /\ kbs = ret.kbs_before
        /\ items = ret.items_before
        /\ ~ret.kb_deleted
        /\ ret.item_deleted_count = 0

\* A call on a live QA knowledge base that holds a live item was refused.
C13_Witness ==
    /\ ret.op = "delete"
    /\ ret.reason = KB_DELETE_REASON_QA_KB_FORBIDDEN
    /\ \E i \in RowsOfKb(items, ret.kb_id) : items[i].is_deleted = 0
    /\ kbs[ret.kb_id].is_deleted = 0

InitRetrieve ==
    InitWith([faults |-> MaxFaults, maxFaults |-> MaxFaults, runs |-> 0,
              maxKbId |-> MaxKbId, maxItemId |-> MaxItemId])

NextRetrieve ==
    \E p \in {1} :
        \/ \E project_id \in RunProjects :
                Create(p, project_id, FALSE, KB_INGEST_STATUS_INGESTING)
        \/ \E kb_id \in 1..MaxKbId, chunks \in IndexRows : UpsertKb(p, kb_id, chunks)
        \/ \E kb_id \in 1..MaxKbId, project_id \in RunProjects, item_id \in 1..MaxItemId :
                SoftDeleteItems(p, kb_id, project_id, {item_id})
        \/ \E project_id \in RunProjects, top_k_embedding \in 0..MaxTopK,
              top_k_bm25 \in 0..MaxTopK :
                RetrieveHybrid(p, project_id, top_k_embedding, top_k_bm25)

SpecRetrieve == InitRetrieve /\ [][NextRetrieve]_vars

\* The ids of a hit list.
HitIds(hits) == {hits[j].id : j \in 1..Len(hits)}

\* C15: for the dense hit list and the lexical hit list of a retrieval, the
\* merged result starts with the dense hits in their order; what follows are
\* exactly the lexical hits whose id is not among the dense hits, each once
\* and in the order of the lexical list; and no id occurs twice in the merged
\* result (neither list repeats an id).
C15_HybridMerge ==
    (ret.op = "retrieve" /\ ~ret.raised) =>
        LET dense == ret.dense
            bm25 == ret.bm25
            merged == ret.merged_results
            rest == SubSeq(merged, Len(dense) + 1, Len(merged))
            at(id) == CHOOSE j \in 1..Len(bm25) : bm25[j].id = id
        IN  /\ Len(merged) >= Len(dense)
            /\ SubSeq(merged, 1, Len(dense)) = dense
            /\ \A j \in 1..Len(rest) :
                  /\ rest[j].id \in HitIds(bm25) \ HitIds(dense)
                  /\ rest[j] = bm25[at(rest[j].id)]
            /\ HitIds(rest) = HitIds(bm25) \ HitIds(dense)
            /\ \A j1, j2 \in 1..Len(rest) :
                  j1 < j2 => at(rest[j1].id) < at(rest[j2].id)
            /\ \A j1, j2 \in 1..Len(merged) : merged[j1].id = merged[j2].id => j1 = j2

\* Dense hits [A, B] and lexical hits [B, C] were merged into [A, B, C].
C15_Witness ==
    /\ ret.op = "retrieve"
    /\ ~ret.raised
    /\ Len(ret.dense) = 2
    /\ Len(ret.bm25) = 2
    /\ ret.dense[2].id = ret.bm25[1].id
    /\ ret.dense[1].id \notin HitIds(ret.bm25)
    /\ ret.bm25[2].id \notin HitIds(ret.dense)
    /\ ret.merged_results = <<ret.dense[1], ret.dense[2], ret.bm25[2]>>

\* ---------------- the single-item QA operations, the environment failing
\* One session: the INSERT of get-or-create meets no other writer.
InitQa ==
    InitWith([faults |-> MaxFaults, maxFaults |-> MaxFaults, runs |-> 0,
              maxKbId |-> NRunKbIds, maxItemId |-> MaxItemId])

NextQa ==
    \E p \in {1} :
        \/ \E project_id \in RunProjects : StartGetOrCreate(p, project_id)
        \/ GocLock(p)
        \/ GocSelect(p)
        \/ GocInsert(p)
        \/ GocCommit(p)
        \/ \E project_id \in RunProjects, qa_text \in Texts :
                StartAddOne(p, project_id, qa_text)
        \/ AddIngesting(p)
        \/ AddExisting(p)
        \/ AddSkip(p)
        \/ AddEmbed(p)
        \/ AddIndex(p)
        \/ AddUpsert(p)
        \/ AddSucceed(p)
        \/ QaExcept(p)
        \/ QaFailWrite(p)
        \/ \E project_id \in RunProjects, item_id \in 1..MaxItemId, qa_text \in Texts :
                StartUpdateOne(p, project_id, item_id, qa_text)
        \/ UpdEmbed(p)
        \/ UpdIngesting(p)
        \/ UpdItem(p)
        \/ \E project_id \in RunProjects, item_id \in 1..MaxItemId :
                StartDeleteMany(p, project_id, {item_id})
        \/ DelItems(p)

SpecQa == InitQa /\ [][NextQa]_vars

\* add_one or update_one failed after the QA knowledge base was resolved.
QaFailed == ret.op \in {"add", "update"} /\ ret.error # ""

\* C18, as stated: if add_one or update_one fails after the project's QA
\* knowledge base has been resolved, the error is raised to the caller, the
\* knowledge base's status is failed afterwards, and no item row is changed.
C18_FailureSetsFailed ==
    QaFailed =>
        /\ ret.raised
        /\ ret.kb_id \in DOMAIN kbs
        /\ kbs[ret.kb_id].ingest_status = KB_INGEST_STATUS_FAILED
        /\ items = ret.items_at_start

\* C18, amended: if add_one or update_one fails after the project's QA
\* knowledge base has been resolved, an error is raised to the caller and no
\* item row is changed; the status is failed when the failure write was
\* committed, and it is committed unless a call of the handler (its rollback,
\* the failure write or its commit) fails as well, or the failing call had
\* created the knowledge base itself, which its rollback then removes.
C18_FailureSetsFailedWhenWritten ==
    QaFailed =>
        /\ ret.raised
        /\ items = ret.items_at_start
        /\ ret.status_written =>
              /\ ret.kb_id \in DOMAIN kbs
              /\ kbs[ret.kb_id].ingest_status = KB_INGEST_STATUS_FAILED
        /\ ~ret.status_written =>
              \/ ret.faults >= (IF ret.error = "not_found" THEN 1 ELSE 2)
              \/ ret.kb_id \notin DOMAIN kbs

\* add_one failed in its last status write, after its upsert had been
\* executed: the row it drew an id for is not stored and the status is failed.
C18_Witness ==
    /\ QaFailed
    /\ ret.op = "add"
    /\ ret.error = "status"
    /\ ret.status_written
    /\ kbs[ret.kb_id].ingest_status = KB_INGEST_STATUS_FAILED
    /\ items = ret.items_at_start
    /\ nextItemId - 1 \notin DOMAIN items

\* C19: whenever add_one, update_one, delete_one or delete_many completes
\* without error, the QA knowledge base's ingest_status is succeeded, whatever
\* it was before the call.
C19_SucceededOnCompletion ==
    (ret.op \in {"add", "update", "delmany"} /\ ~ret.raised) =>
        kbs[ret.kb_id].ingest_status = KB_INGEST_STATUS_SUCCEEDED

\* ------------------------------------- ingestion runs submitted again
\* One session; up to MaxRuns + 1 runs, so that a run and its re-submission can
\* follow a run that filled the knowledge base; one call may fail per run.
InitRerun ==
    InitWith([faults |-> 1, maxFaults |-> 1, runs |-> MaxRuns + 1,
              maxKbId |-> NRunKbIds, maxItemId |-> MaxItemId])

NextRerun ==
    \E p \in {1} :
        \/ \E project_id \in RunProjects :
                Create(p, project_id, FALSE, KB_INGEST_STATUS_INGESTING)
        \/ \E kb_id \in 1..NRunKbIds, project_id \in RunProjects, file \in Files,
              append_to_existing \in BOOLEAN, dedup_origin_text \in BOOLEAN :
                StartRun(p, kb_id, project_id, file, append_to_existing, dedup_origin_text)
        \/ RunBegin(p)
        \/ RunLoad(p)
        \/ RunDedup(p)
        \/ RunIndex(p)
        \/ RunEmbed(p)
        \/ RunUpsert(p)
        \/ RunFinish(p)
        \/ RunExcept(p)
        \/ RunFailWrite(p)
        \/ RunSwallow(p)
        \/ RunDie(p)

SpecRerun == InitRerun /\ [][NextRerun]_vars

\* The live rows of knowledge base kb_id in `rows', and their
\* (chunk_index, origin_text) pairs.
LiveIds(rows, kb_id) ==
    {i \in DOMAIN rows : rows[i].kb_id = kb_id /\ rows[i].is_deleted = 0}

LivePairs(rows, kb_id) ==
    {<<rows[i].chunk_index, rows[i].origin_text>> : i \in LiveIds(rows, kb_id)}

\* The re-submitted run leaves the live rows of its knowledge base as the
\* first run left them: the same pairs, and no row more.
SameAsAfterFirstRun ==
    /\ LivePairs(items, ret.kb_id) = LivePairs(ret.items_at_start, ret.kb_id)
    /\ LiveIds(items, ret.kb_id) = LiveIds(ret.items_at_start, ret.kb_id)

\* C21, as stated: running the same run twice in sequence, in fresh mode or
\* in append mode with de-duplication, leaves the knowledge base with the same
\* set of non-deleted (chunk_index, origin_text) pairs as after the first run,
\* and with no duplicated row.
C21_ResubmissionSafe ==
    (ret.op = "run" /\ ret.resubmitted
        /\ (~ret.append_to_existing \/ ret.dedup_origin_text)) =>
        SameAsAfterFirstRun

\* C21, amended: the same for fresh mode without de-duplication and for append
\* mode with de-duplication.
C21_ResubmissionSafeInItsModes ==
    (ret.op = "run" /\ ret.resubmitted
        /\ ret.append_to_existing = ret.dedup_origin_text) =>
        SameAsAfterFirstRun

\* A re-submitted append run with de-duplication returned True after skipping
\* every segment, on a knowledge base that holds the rows of the first run.
C21_Witness ==
    /\ ret.op = "run"
    /\ ret.resubmitted
    /\ ret.append_to_existing
    /\ ret.dedup_origin_text
    /\ ret.outcome = "ok"
    /\ ret.skipped_count = Len(ret.file)
    /\ Len(ret.file) >= 2
    /\ LiveIds(items, ret.kb_id) # {}
    /\ SameAsAfterFirstRun

\* The rows of `before' that belong to another project than project_id are in
\* `after' as they were.
OtherProjectsUnchanged(before, after, project_id) ==
    \A i \in DOMAIN before :
        before[i].project_id # project_id => (i \in DOMAIN after /\ after[i] = before[i])

\* C22: an operation invoked with project id P leaves unchanged every
\* knowledge_base row and every item row whose project_id is not P, also when
\* it is given a kb_id that belongs to another project; here for upsert_batch
\* and soft_delete.
C22_ProjectScoped ==
    /\ ret.op = "upsert" => OtherProjectsUnchanged(ret.before, items, ret.project_id)
    /\ ret.op = "delete" =>
          /\ OtherProjectsUnchanged(ret.kbs_before, kbs, ret.project_id)
          /\ OtherProjectsUnchanged(ret.items_before, items, ret.project_id)

\* ------------------ concurrent get-or-create calls, the lock excluding nobody
InitGocNoLock ==
    InitWith([faults |-> 0, maxFaults |-> 0, runs |-> 0,
              maxKbId |-> NProcs + 1, maxItemId |-> 0])

NextGocNoLock ==
    \E p \in Procs :
        \/ \E project_id \in Projects : StartGetOrCreate(p, project_id)
        \/ GocLockNoExclusion(p)
        \/ GocSelect(p)
        \/ GocInsert(p)
        \/ GocRequery(p)
        \/ GocCommit(p)

SpecGocNoLock == InitGocNoLock /\ [][NextGocNoLock]_vars

\* C23: also when the advisory lock gives no mutual exclusion, get-or-create
\* surfaces no uniqueness conflict: the re-query after a refused insert finds
\* the QA knowledge base that now exists, every call returns without error the
\* id of the project's only live QA row, and so all callers get the same id.
C23_ConflictNotSurfaced ==
    /\ \A p \in Procs :
          pc[p] = "goc_requery" =>
              get_project_qa_kb_id(KbView(p), loc[p].project_id) # 0
    /\ \A project_id \in Projects : Cardinality(LiveQaKbs(project_id)) <= 1
    /\ ret.op = "goc" =>
          /\ ~ret.raised
          /\ LiveQaKbs(ret.project_id) = {ret.kb_id}

\* A call whose insert was refused returns the id of the row another session
\* created, which is not the id its own insert drew.
C23_Witness ==
    /\ ret.op = "goc"
    /\ ~ret.raised
    /\ ret.requeried
    /\ LiveQaKbs(ret.project_id) = {ret.kb_id}
    /\ nextKbId > ret.kb_id + 1

\* ------------------- ingestion runs and soft deletes, run concurrently
\* Two sessions work on the knowledge bases of one project; no call fails, so
\* a run fails only for an empty file or because nothing was written.
ShortFiles == {file \in Files : Len(file) <= 1}

InitRuns ==
    InitWith([faults |-> 0, maxFaults |-> 0, runs |-> MaxRuns,
              maxKbId |-> NRunKbIds, maxItemId |-> MaxItemId])

NextRuns ==
    \E p \in Sessions :
        \/ \E project_id \in RunProjects :
                Create(p, project_id, FALSE, KB_INGEST_STATUS_INGESTING)
        \/ \E kb_id \in 1..NRunKbIds, project_id \in RunProjects :
                StartSoftDelete(p, kb_id, project_id, TRUE, TRUE)
        \/ SdSelect(p)
        \/ SdUpdate(p)
        \/ \E kb_id \in 1..NRunKbIds, project_id \in RunProjects, file \in ShortFiles,
              append_to_existing \in BOOLEAN, dedup_origin_text \in BOOLEAN :
                StartRun(p, kb_id, project_id, file, append_to_existing, dedup_origin_text)
        \/ RunBegin(p)
        \/ RunLoad(p)
        \/ RunDedup(p)
        \/ RunIndex(p)
        \/ RunEmbed(p)
        \/ RunUpsert(p)
        \/ RunFinish(p)
        \/ RunExcept(p)
        \/ RunFailWrite(p)

SpecRuns == InitRuns /\ [][NextRuns]_vars

\* Session q is inside a run on knowledge base kb_id that has committed its
\* first status write and has not returned.
RunInProgress(q, kb_id) ==
    /\ op[q] = "run"
    /\ loc[q].kb_id = kb_id
    /\ pc[q] # "run_begin"

\* C24: soft_delete with default flags never returns reason deleted for a
\* knowledge base while an ingestion run on it has committed its initial
\* ingesting flip and has not yet returned.
C24_NoDeleteDuringRun ==
    (/\ ret.op = "delete"
     /\ ret.forbid_qa_kb
     /\ ret.forbid_ingesting
     /\ ret.reason = KB_DELETE_REASON_DELETED) =>
        \A q \in Procs : ~RunInProgress(q, ret.kb_id)

\* C26: whenever at least one ingestion run on a knowledge base has finished
\* step 1 and has not yet returned, the committed ingest_status of that
\* knowledge base is ingesting, also when two runs on it overlap and one of
\* them finishes first.
C26_IngestingWhileRunning ==
    \A q \in Procs : \A kb_id \in DOMAIN kbs :
        (RunInProgress(q, kb_id) /\ kbs[kb_id].project_id = loc[q].project_id) =>
            kbs[kb_id].ingest_status = KB_INGEST_STATUS_INGESTING

\* The row a soft_delete call was given, as it was when the call's last
\* statement ran, and whether the call could delete it.
DeleteTarget == ret.kbs_before[ret.kb_id]

DeleteFound ==
    /\ ret.op = "delete"
    /\ ret.kb_id \in DOMAIN ret.kbs_before
    /\ DeleteTarget.project_id = ret.project_id

DeleteEligible ==
    /\ DeleteTarget.is_deleted = 0
    /\ ~(ret.forbid_qa_kb /\ DeleteTarget.qa_items)
    /\ ~(ret.forbid_ingesting /\ DeleteTarget.ingest_status = KB_INGEST_STATUS_INGESTING)

\* C25: of two concurrent soft_delete calls on the same eligible knowledge
\* base exactly one returns deleted, with the count of its items, and the other
\* returns already_deleted with item_deleted_count = 0.  A call returns deleted
\* exactly when the row was live and eligible until its own update, which only
\* one session at a time can be about to make, and then it counts the items
\* that were live; it returns already_deleted exactly when the row was
\* soft-deleted, and then it counts 0 and changes nothing.
C25_OneDeleteWins ==
    /\ \A p, q \in Procs :
          (pc[p] = "sd_update" /\ pc[q] = "sd_update" /\ loc[p].kb_id = loc[q].kb_id)
              => p = q
    /\ DeleteFound =>
          /\ (ret.reason = KB_DELETE_REASON_DELETED) = DeleteEligible
          /\ (ret.reason = KB_DELETE_REASON_ALREADY_DELETED) = (DeleteTarget.is_deleted # 0)
          /\ ret.reason = KB_DELETE_REASON_DELETED =>
                /\ ret.item_deleted_count =
                      Cardinality(LiveIds(ret.items_before, ret.kb_id))
                /\ kbs[ret.kb_id].is_deleted = 1
                /\ LiveIds(items, ret.kb_id) = {}
          /\ ret.reason = KB_DELETE_REASON_ALREADY_DELETED =>
                /\ ret.item_deleted_count = 0
                /\ kbs = ret.kbs_before
                /\ items = ret.items_before

\* One call returns deleted with the count of the items while the other call
\* on the same knowledge base waits at its SELECT FOR UPDATE.
C25_Witness ==
    /\ DeleteFound
    /\ ret.reason = KB_DELETE_REASON_DELETED
    /\ ret.item_deleted_count >= 1
    /\ \E q \in Procs : pc[q] = "sd_select" /\ loc[q].kb_id = ret.kb_id

\* --------------------------------- an ingestion run that is let to proceed
\* One run of one session; calls may fail, the process does not die.  Every
\* await of the task answers or raises, so a step of the task that can be taken
\* is taken: weak fairness on the task's steps.
InitRunLive ==
    InitWith([faults |-> MaxFaults, maxFaults |-> MaxFaults, runs |-> 1,
              maxKbId |-> NRunKbIds, maxItemId |-> MaxItemId])

RunStep(p) ==
    \/ RunBegin(p)
    \/ RunLoad(p)
    \/ RunDedup(p)
    \/ RunIndex(p)
    \/ RunEmbed(p)
    \/ RunUpsert(p)
    \/ RunFinish(p)
    \/ RunExcept(p)
    \/ RunFailWrite(p)
    \/ RunSwallow(p)

NextRunLive ==
    \E p \in {1} :
        \/ \E project_id \in Projects :
                Create(p, project_id, FALSE, KB_INGEST_STATUS_INGESTING)
        \/ \E kb_id \in 1..NRunKbIds, project_id \in Projects, file \in Files,
              append_to_existing \in BOOLEAN, dedup_origin_text \in BOOLEAN :
                StartRun(p, kb_id, project_id, file, append_to_existing, dedup_origin_text)
        \/ RunStep(p)

SpecRunLive == InitRunLive /\ [][NextRunLive]_vars /\ WF_vars(RunStep(1))

\* A run on a knowledge base whose row exists has started.
RunStartedOnKb ==
    /\ op[1] = "run"
    /\ pc[1] = "run_begin"
    /\ loc[1].kb_id \in DOMAIN kbs

\* C27, as stated: every started ingestion run eventually returns, and the
\* knowledge base's status eventually becomes succeeded or failed.
C27_RunEndsInTerminalStatus ==
    RunStartedOnKb ~>
        (/\ RunReturned
         /\ ret.kb_id \in DOMAIN kbs
         /\ kbs[ret.kb_id].ingest_status
                \in {KB_INGEST_STATUS_SUCCEEDED, KB_INGEST_STATUS_FAILED})

\* C27, amended: every started ingestion run eventually ends: it returns, or
\* the rollback of its handler raises; when it ends with its final status write
\* committed the status is succeeded or failed, and the write is missing only
\* when a call of the run failed or the knowledge base is not a live one of
\* the project the run was given.
C27_RunEnds ==
    RunStartedOnKb ~>
        (/\ ret.op = "run"
         /\ ret.outcome \in {"ok", "failed", "raised"}
         /\ ret.kb_id \in DOMAIN kbs
         /\ ret.status_written =>
               kbs[ret.kb_id].ingest_status
                   \in {KB_INGEST_STATUS_SUCCEEDED, KB_INGEST_STATUS_FAILED}
         /\ ~ret.status_written => (ret.faults >= 1 \/ ~RunKbLive))

\* A run over the longest file has returned True and the status is succeeded.
C27_Witness ==
    /\ RunReturned
    /\ ret.outcome = "ok"
    /\ ret.status_written
    /\ Len(ret.file) = MaxChunks
    /\ ret.total_upserted = MaxChunks
    /\ kbs[ret.kb_id].ingest_status = KB_INGEST_STATUS_SUCCEEDED

\* ------------------- ingestion runs of service instances of every batch size
BatchSizes == 1..MaxBatchSize

InitBatch ==
    InitWith([faults |-> 0, maxFaults |-> 0, runs |-> MaxRuns,
              maxKbId |-> NRunKbIds, maxItemId |-> 2 * MaxChunks])

NextBatch ==
    \E p \in {1} :
        \/ \E project_id \in RunProjects :
                Create(p, project_id, FALSE, KB_INGEST_STATUS_INGESTING)
        \/ \E kb_id \in 1..NRunKbIds, project_id \in RunProjects, file \in Files,
              append_to_existing \in BOOLEAN, dedup_origin_text \in BOOLEAN,
              e_size \in BatchSizes, u_size \in BatchSizes :
                StartRunSized(p, kb_id, project_id, file, append_to_existing,
                              dedup_origin_text, e_size, u_size)
        \/ RunBegin(p)
        \/ RunLoad(p)
        \/ RunDedup(p)
        \/ RunIndex(p)
        \/ RunEmbed(p)
        \/ RunUpsert(p)
        \/ RunFinish(p)
        \/ RunExcept(p)
        \/ RunFailWrite(p)

SpecBatch == InitBatch /\ [][NextBatch]_vars

\* The segments a run keeps and the index it starts at, as its arguments and
\* the store it started on determine them.
KeptChunks ==
    LET all == [j \in 1..Len(ret.file) |-> [text |-> ret.file[j]]]
    IN  IF ret.dedup_origin_text
        THEN dedup_qa_chunks_by_origin_text(ret.items_at_start, ret.kb_id,
                                            ret.project_id, all).chunks
        ELSE all

StartIndex ==
    IF ret.append_to_existing
    THEN get_next_chunk_index(ret.items_at_start, ret.kb_id, ret.project_id)
    ELSE 0

\* C28: the chunk indexes of a run that returned True are start_index,
\* start_index + 1, ... in input order, one row per kept segment, with no gap
\* and no repeat, whatever the embedding batch size and the upsert batch size
\* of the service instance; the rows of the run and the item rows it leaves are
\* determined by its arguments and the store it started on alone, so they are
\* the same for every choice of the two sizes.
C28_IndexesContiguous ==
    (ret.op = "run" /\ ret.outcome = "ok") =>
        LET n == Len(KeptChunks)
            rows == ret.written
        IN  /\ ret.chunks = KeptChunks
            /\ ret.start_chunk_index = StartIndex
            /\ Cardinality(DOMAIN rows) = n
            /\ {rows[i].chunk_index : i \in DOMAIN rows} = StartIndex..(StartIndex + n - 1)
            /\ \A j \in 1..n : \E i \in DOMAIN rows :
                  /\ rows[i].chunk_index = StartIndex + j - 1
                  /\ rows[i].origin_text = KeptChunks[j].text
                  /\ rows[i].kb_id = ret.kb_id
                  /\ rows[i].is_deleted = 0
            /\ \A i \in DOMAIN rows : i \in DOMAIN items /\ items[i] = rows[i]
            /\ \A i \in DOMAIN items \ DOMAIN rows :
                  i \in DOMAIN ret.items_at_start /\ items[i] = ret.items_at_start[i]

\* An appending run over the longest file, started at an index above 0 by an
\* instance whose embedding batches of 2 and upsert batches of 2 both end inside
\* the file, returned True.
C28_Witness ==
    /\ ret.op = "run"
    /\ ret.outcome = "ok"
    /\ ret.append_to_existing
    /\ ret.embedding_batch_size = 2
    /\ ret.db_upsert_batch_size = 2
    /\ Len(ret.chunks) = MaxChunks
    /\ ret.start_chunk_index > 0
    /\ Cardinality(DOMAIN ret.written) = MaxChunks

\* C29: a run fails with the nothing-written error only when it wrote zero
\* rows and de-duplication was not active; a run with de-duplication that has
\* no row to write (every segment is a duplicate, or the segment list is
\* empty), on a live knowledge base with no call failing, returns True with
\* status succeeded, success_count = 0 and failed_count = total_input_count,
\* and changes no item row.
C29_ZeroRowsWithDedupSucceeds ==
    /\ (ret.op = "run" /\ ret.error = "nothing_written") =>
          (ret.total_upserted = 0 /\ ~ret.dedup_origin_text)
    /\ (/\ ret.op = "run"
        /\ ret.dedup_origin_text
        /\ ret.faults = 0
        /\ RunKbLive
        /\ KeptChunks = <<>>) =>
          /\ ret.outcome = "ok"
          /\ ret.status_written
          /\ kbs[ret.kb_id].ingest_status = KB_INGEST_STATUS_SUCCEEDED
          /\ kbs[ret.kb_id].success_count = 0
          /\ kbs[ret.kb_id].failed_count = ret.total_input_count
          /\ items = ret.items_at_start

\* ------------------------------------- update_kb_ingest_status, call by call
\* The statuses and counts a caller may hand over: a status outside the allowed
\* values, None (<<>>) and a negative count among them.
StatusArgs == KB_INGEST_STATUS_VALUES \cup {"unknown"}
CountArgs == {<<>>} \cup {<<n>> : n \in (-1)..MaxCount}

\* update_kb_ingest_status and the commit of its caller.  The check of
\* ingest_status comes before the statement: ValueError, and nothing is run.
\* env.runs counts the calls that may still be made.
UpdateStatus(p, kb_id, project_id, ingest_status, success_count, failed_count) ==
    /\ pc[p] = "idle"
    /\ env.runs > 0
    /\ env' = [env EXCEPT !.runs = @ - 1]
    /\ LET r == [op |-> "update_status", kb_id |-> kb_id, project_id |-> project_id,
                 ingest_status |-> ingest_status, success_count |-> success_count,
                 failed_count |-> failed_count, kbs_before |-> kbs,
                 items_before |-> items]
       IN  IF ingest_status \notin KB_INGEST_STATUS_VALUES
           THEN /\ ret' = (r @@ [raised |-> TRUE])
                /\ UNCHANGED <<kbs, items, txKbs, txItems, advLocks>>
           ELSE /\ ~KbRowBusy(p, kb_id)
                /\ Commit(p, update_kb_ingest_status(KbView(p), kb_id, project_id,
                                 ingest_status, success_count, failed_count)
                             @@ txKbs[p], txItems[p])
                /\ ret' = (r @@ [raised |-> FALSE])
    /\ UNCHANGED <<nextKbId, nextItemId, pc, op, loc>>

InitStatus ==
    InitWith([faults |-> 0, maxFaults |-> 0, runs |-> MaxStatusCalls,
              maxKbId |-> MaxKbId, maxItemId |-> 0])

NextStatus ==
    \E p \in {1} :
        \/ \E project_id \in Projects :
                Create(p, project_id, FALSE, KB_INGEST_STATUS_INGESTING)
        \/ \E kb_id \in 1..MaxKbId, project_id \in Projects :
                StartSoftDelete(p, kb_id, project_id, FALSE, FALSE)
        \/ SdSelect(p)
        \/ SdUpdate(p)
        \/ \E kb_id \in 1..MaxKbId, project_id \in Projects, ingest_status \in StatusArgs,
              success_count \in CountArgs, failed_count \in CountArgs :
                UpdateStatus(p, kb_id, project_id, ingest_status, success_count,
                             failed_count)

SpecStatus == InitStatus /\ [][NextStatus]_vars

\* The count stored for the argument `count' over the previous value.
StoredCount(count, previous) ==
    IF count = <<>> THEN previous ELSE IF count[1] < 0 THEN 0 ELSE count[1]

\* C30: update_kb_ingest_status changes no row when the knowledge base is
\* soft-deleted, is of another project or does not exist; otherwise, of that
\* row alone, it sets the status and each count that was supplied, stored as
\* max(0, value), and leaves a count that was not supplied and every other
\* column but the update timestamp as they were.  A status outside the allowed
\* values is refused before anything is written.
C30_UpdateStatusFrame ==
    (ret.op = "update_status") =>
        LET before == ret.kbs_before
            k == ret.kb_id
        IN  /\ items = ret.items_before
            /\ DOMAIN kbs = DOMAIN before
            /\ \A j \in DOMAIN kbs \ {k} : kbs[j] = before[j]
            /\ k \in DOMAIN before =>
                  IF \/ before[k].is_deleted # 0
                     \/ before[k].project_id # ret.project_id
                     \/ ret.raised
                  THEN kbs[k] = before[k]
                  ELSE kbs[k] = [before[k] EXCEPT
                          !.ingest_status = ret.ingest_status,
                          !.success_count = StoredCount(ret.success_count, @),
                          !.failed_count = StoredCount(ret.failed_count, @)]

\* A call with a negative success_count and no failed_count on a live row whose
\* failed_count was above 0: 0 and the previous value are stored.
C30_Witness ==
    /\ ret.op = "update_status"
    /\ ~ret.raised
    /\ ret.kb_id \in DOMAIN ret.kbs_before
    /\ ret.kbs_before[ret.kb_id].is_deleted = 0
    /\ ret.kbs_before[ret.kb_id].project_id = ret.project_id
    /\ ret.kbs_before[ret.kb_id].failed_count > 0
    /\ ret.kbs_before[ret.kb_id].ingest_status # ret.ingest_status
    /\ ret.success_count = <<-1>>
    /\ ret.failed_count = <<>>
    /\ kbs[ret.kb_id].success_count = 0
    /\ kbs[ret.kb_id].failed_count = ret.kbs_before[ret.kb_id].failed_count
    /\ kbs[ret.kb_id].ingest_status = ret.ingest_status

\* --------------------------------------------- the checks before any write
\* A question or an answer is a sequence of characters, " " the whitespace.
Chars == {" ", "a"}
Strings == UNION {[1..n -> Chars] : n \in 0..MaxStrLen}

RECURSIVE lstrip(_)
lstrip(s) == IF s # <<>> /\ Head(s) = " " THEN lstrip(Tail(s)) ELSE s

RECURSIVE rstrip(_)
rstrip(s) ==
    IF s # <<>> /\ s[Len(s)] = " " THEN rstrip(SubSeq(s, 1, Len(s) - 1)) ELSE s

\* A strip that leaves its argument as it is.
strip_nothing(s) == s

\* str.strip(): the whitespace at both ends removed.
strip(s) == rstrip(lstrip(s))

\* _build_qa_text: the two stripped strings under their labels.
build_qa_text(question, answer) ==
    [question |-> strip(question), answer |-> strip(answer)]

\* What a rejected call hands to its caller: the ValueError.
Rejected(o, args) ==
    /\ ret' = ([op |-> o, raised |-> TRUE, error |-> "validation", args |-> args,
                kbs_before |-> kbs, items_before |-> items])
    /\ UNCHANGED <<kbs, items, nextKbId, nextItemId, txKbs, txItems, advLocks,
                   pc, op, loc, env>>

\* add_single_qa_item from its first line: question.strip(), answer.strip(),
\* ValueError when one of them is empty, else the operation proper.
AddOneCall(p, project_id, question, answer) ==
    /\ pc[p] = "idle"
    /\ IF strip(question) = <<>> \/ strip(answer) = <<>>
       THEN Rejected("add", <<question, answer>>)
       ELSE StartAddOne(p, project_id, build_qa_text(strip(question), strip(answer)))

\* update_qa_item from its first line: the same check.
UpdateOneCall(p, project_id, item_id, question, answer) ==
    /\ pc[p] = "idle"
    /\ IF strip(question) = <<>> \/ strip(answer) = <<>>
       THEN Rejected("update", <<question, answer>>)
       ELSE StartUpdateOne(p, project_id, item_id,
                           build_qa_text(strip(question), strip(answer)))

\* normalized_ids = sorted({item_id for item_id in item_ids if item_id > 0})
normalized_ids(item_ids) == {item_id \in item_ids : item_id > 0}

\* delete_multi_qa_items from its first line: ValueError when no positive id
\* is left.
DeleteManyCall(p, project_id, item_ids) ==
    /\ pc[p] = "idle"
    /\ IF normalized_ids(item_ids) = {}
       THEN Rejected("delmany", item_ids)
       ELSE StartDeleteMany(p, project_id, normalized_ids(item_ids))

\* create_kb and the commit of create_kb_ingest_task, the check of
\* ingest_status included: ValueError before the row is built.
CreateCall(p, project_id, qa_items, ingest_status) ==
    /\ pc[p] = "idle"
    /\ IF ingest_status \notin KB_INGEST_STATUS_VALUES
       THEN Rejected("create", ingest_status)
       ELSE Create(p, project_id, qa_items, ingest_status)

InitValidate ==
    InitWith([faults |-> 0, maxFaults |-> 0, runs |-> MaxStatusCalls,
              maxKbId |-> MaxKbId, maxItemId |-> NSharedItemIds])

NextValidate ==
    \E p \in {1} :
        \/ \E project_id \in RunProjects, qa_items \in BOOLEAN, ingest_status \in StatusArgs :
                CreateCall(p, project_id, qa_items, ingest_status)
        \/ \E kb_id \in 1..MaxKbId, project_id \in RunProjects, ingest_status \in StatusArgs :
                UpdateStatus(p, kb_id, project_id, ingest_status, <<>>, <<>>)
        \/ \E project_id \in RunProjects, question \in Strings, answer \in Strings :
                AddOneCall(p, project_id, question, answer)
        \/ \E project_id \in RunProjects, item_id \in 1..MaxRows,
              question \in Strings, answer \in Strings :
                UpdateOneCall(p, project_id, item_id, question, answer)
        \/ \E project_id \in RunProjects, item_ids \in SUBSET ((-1)..MaxRows) :
                DeleteManyCall(p, project_id, item_ids)
        \/ GocLock(p)
        \/ GocSelect(p)
        \/ GocInsert(p)
        \/ AddIngesting(p)
        \/ AddExisting(p)
        \/ AddSkip(p)
        \/ AddEmbed(p)
        \/ AddIndex(p)
        \/ AddUpsert(p)
        \/ AddSucceed(p)
        \/ UpdEmbed(p)
        \/ UpdIngesting(p)
        \/ UpdItem(p)
        \/ QaExcept(p)
        \/ QaFailWrite(p)
        \/ DelItems(p)

SpecValidate == InitValidate /\ [][NextValidate]_vars

\* The string has a character that is not whitespace.
NonBlank(s) == \E i \in 1..Len(s) : s[i] # " "

\* The arguments of the call that just returned do not pass validation.
ValidationError == "error" \in DOMAIN ret /\ ret.error = "validation"

InvalidArgs ==
    \/ ValidationError
    \/ ret.op = "update_status" /\ ret.ingest_status \notin KB_INGEST_STATUS_VALUES

\* C31: a call that fails validation changes no row: create or update_status
\* with a status outside the allowed values, add_one or update_one with a
\* question or answer that is empty after trimming, and delete_many with no
\* positive id raise the validation error and leave every knowledge_base row
\* and item row as it was, nothing pending in the session; and no such call is
\* let through: an operation in progress carries a text with a non-blank
\* question and answer or a non-empty set of positive ids, and every stored
\* status is an allowed one.
C31_ValidationBeforeWrite ==
    /\ InvalidArgs =>
          /\ ret.raised
          /\ kbs = ret.kbs_before
          /\ items = ret.items_before
          /\ txKbs[1] = NoRows
          /\ txItems[1] = NoRows
    /\ (ret.op \in {"add", "update"} /\ ValidationError) =>
          (~NonBlank(ret.args[1]) \/ ~NonBlank(ret.args[2]))
    /\ (ret.op = "delmany" /\ ValidationError) =>
          (\A i \in ret.args : i <= 0)
    /\ (ret.op = "create" /\ ValidationError) =>
          ret.args \notin KB_INGEST_STATUS_VALUES
    /\ op[1] \in {"add", "update"} =>
          (NonBlank(loc[1].qa_text.question) /\ NonBlank(loc[1].qa_text.answer))
    /\ op[1] = "delmany" =>
          (loc[1].item_ids # {} /\ \A i \in loc[1].item_ids : i > 0)
    /\ \A k \in DOMAIN kbs : kbs[k].ingest_status \in KB_INGEST_STATUS_VALUES
    /\ \A i \in DOMAIN items :
          NonBlank(items[i].origin_text.question) /\ NonBlank(items[i].origin_text.answer)

\* add_one with a question of whitespace only was refused on a project whose
\* QA knowledge base holds an item: the rows are as they were.
C31_Witness ==
    /\ ret.op = "add"
    /\ ValidationError
    /\ ret.args[1] = <<" ", " ">>
    /\ NonBlank(ret.args[2])
    /\ ret.items_before # NoRows
    /\ items = ret.items_before
    /\ kbs = ret.kbs_before

\* ------------------------------------------- soft_delete_items_by_ids by lists
InitItems ==
    InitWith([faults |-> 0, maxFaults |-> 0, runs |-> 0, maxKbId |-> MaxKbId,
              maxItemId |-> MaxRows + 1])

NextItems ==
    \E p \in {1} :
        \/ \E project_id \in Projects :
                Create(p, project_id, FALSE, KB_INGEST_STATUS_SUCCEEDED)
        \/ \E kb_id \in 1..MaxKbId, chunks \in IndexRows : UpsertKb(p, kb_id, chunks)
        \/ \E kb_id \in 1..MaxKbId, project_id \in Projects,
              item_ids \in SUBSET (1..(MaxRows + 1)) :
                SoftDeleteItems(p, kb_id, project_id, item_ids)

SpecItems == InitItems /\ [][NextItems]_vars

\* The ids given to the call that were non-deleted items of its knowledge base
\* and project.
DeleteTargets ==
    {i \in ret.item_ids \cap DOMAIN ret.items_before :
        /\ ret.items_before[i].kb_id = ret.kb_id
        /\ ret.items_before[i].project_id = ret.project_id
        /\ ret.items_before[i].is_deleted = 0}

\* C32: soft_delete_items_by_ids returns the number of the given ids that are
\* non-deleted items of the given knowledge base and project, and soft-deletes
\* exactly those rows, every other row staying as it was; an empty id list
\* returns 0 and changes nothing, and the same call made again right after
\* returns 0 and changes nothing.
C32_SoftDeleteByIds ==
    (ret.op = "soft_delete_items") =>
        /\ ret.deleted_count = Cardinality(DeleteTargets)
        /\ DOMAIN items = DOMAIN ret.items_before
        /\ \A i \in DOMAIN items :
              items[i] = IF i \in DeleteTargets
                         THEN [ret.items_before[i] EXCEPT !.is_deleted = 1]
                         ELSE ret.items_before[i]
        /\ ret.item_ids = {} => (ret.deleted_count = 0 /\ items = ret.items_before)
        /\ ret.repeated => (ret.deleted_count = 0 /\ items = ret.items_before)

\* Three ids were given, two of them live items of the knowledge base and one
\* an item of another knowledge base: 2 is returned and the third row is live.
C32_Witness ==
    /\ ret.op = "soft_delete_items"
    /\ Cardinality(ret.item_ids) = 3
    /\ ret.deleted_count = 2
    /\ \E i \in ret.item_ids :
          /\ i \in DOMAIN items
          /\ items[i].kb_id # ret.kb_id
          /\ items[i].is_deleted = 0

\* ------------------------------------------ retrieval over several projects
InitRetrieveScoped ==
    InitWith([faults |-> 0, maxFaults |-> 0, runs |-> 0,
              maxKbId |-> MaxKbId, maxItemId |-> MaxRows + 1])

NextRetrieveScoped ==
    \E p \in {1} :
        \/ \E project_id \in Projects :
                Create(p, project_id, FALSE, KB_INGEST_STATUS_SUCCEEDED)
        \/ \E kb_id \in 1..MaxKbId, chunks \in IndexRows : UpsertKb(p, kb_id, chunks)
        \/ \E kb_id \in 1..MaxKbId, project_id \in Projects, item_id \in 1..(MaxRows + 1) :
                SoftDeleteItems(p, kb_id, project_id, {item_id})
        \/ \E project_id \in Projects, top_k_embedding \in 0..MaxTopK,
              top_k_bm25 \in 0..MaxTopK :
                RetrieveHybrid(p, project_id, top_k_embedding, top_k_bm25)

SpecRetrieveScoped == InitRetrieveScoped /\ [][NextRetrieveScoped]_vars

\* The non-deleted items of the requested project.
LiveOfProject ==
    {i \in DOMAIN items : items[i].project_id = ret.project_id /\ items[i].is_deleted = 0}

\* C33: retrieve_hybrid changes no row, and each branch list it returns holds
\* only non-deleted items of the requested project, no item twice: the dense
\* list min(top_k_embedding, number of such items) of them, whatever
\* top_k_bm25 is, the lexical list at most top_k_bm25; a top_k of 0 gives the
\* empty list for its branch and leaves the other branch as it is.
C33_RetrieveScoped ==
    (ret.op = "retrieve" /\ ~ret.raised) =>
        LET n == Cardinality(LiveOfProject)
        IN  /\ kbs = ret.kbs_before
            /\ items = ret.items_before
            /\ txItems[1] = NoRows
            /\ HitIds(ret.dense) \subseteq LiveOfProject
            /\ HitIds(ret.bm25) \subseteq LiveOfProject
            /\ Cardinality(HitIds(ret.dense)) = Len(ret.dense)
            /\ Cardinality(HitIds(ret.bm25)) = Len(ret.bm25)
            /\ Len(ret.dense) = (IF ret.top_k_embedding <= n THEN ret.top_k_embedding ELSE n)
            /\ Len(ret.bm25) <= ret.top_k_bm25
            /\ ret.top_k_embedding = 0 => ret.dense = <<>>
            /\ ret.top_k_bm25 = 0 => ret.bm25 = <<>>

\* With top_k_bm25 = 0 and top_k_embedding = 2 the dense list holds the one
\* live item of the project, while the store also holds a soft-deleted item of
\* the project and a live item of another project.
C33_Witness ==
    /\ ret.op = "retrieve"
    /\ ~ret.raised
    /\ ret.top_k_bm25 = 0
    /\ ret.bm25 = <<>>
    /\ ret.top_k_embedding = 2
    /\ Len(ret.dense) = 1
    /\ \E i \in DOMAIN items : items[i].project_id # ret.project_id /\ items[i].is_deleted = 0
    /\ \E i \in DOMAIN items : items[i].project_id = ret.project_id /\ items[i].is_deleted = 1

\* ------------------------------- retrieve_hybrid beside writers, scan by scan
\* query_vector = (await get_text_embedding([query]))[0]; the session and its
\* transaction are opened.
StartRetrieve(p, project_id, top_k_embedding, top_k_bm25) ==
    Start(p, "retrieve", "ret_dense",
          [NoLoc EXCEPT !.project_id = project_id, !.top_k_embedding = top_k_embedding,
                        !.top_k_bm25 = top_k_bm25])

\* dense_results = await retrieve_dense(...): the statement reads the rows
\* committed when it starts (the engine sets no isolation level: READ COMMITTED).
RetrieveDense(p) ==
    /\ pc[p] = "ret_dense"
    /\ \E dense_results \in retrieve_dense(ItemView(p), loc[p].project_id,
                                           loc[p].top_k_embedding) :
          SetLoc(p, [loc[p] EXCEPT !.dense_results = dense_results,
                                   !.items_at_dense = items])
    /\ Goto(p, "ret_bm25")
    /\ NoReturn
    /\ UNCHANGED <<kbs, items, nextKbId, nextItemId, txKbs, txItems, advLocks, op, env>>

\* bm25_results = await retrieve_bm25(...), a second statement of the same
\* transaction; the transaction ends, the results are merged and returned.
RetrieveBm25(p) ==
    /\ pc[p] = "ret_bm25"
    /\ \E bm25_results \in retrieve_bm25(ItemView(p), loc[p].project_id, loc[p].top_k_bm25) :
          Return(p, [op |-> "retrieve", raised |-> FALSE,
                     project_id |-> loc[p].project_id,
                     dense |-> loc[p].dense_results, bm25 |-> bm25_results,
                     merged_results |-> merged_results(loc[p].dense_results, bm25_results),
                     top_k_embedding |-> loc[p].top_k_embedding,
                     top_k_bm25 |-> loc[p].top_k_bm25,
                     items_at_dense |-> loc[p].items_at_dense,
                     items_at_bm25 |-> items])
    /\ Commit(p, txKbs[p], txItems[p])
    /\ UNCHANGED <<nextKbId, nextItemId, env>>

InitRetrieveRace ==
    InitWith([faults |-> 0, maxFaults |-> 0, runs |-> 0,
              maxKbId |-> NRunKbIds, maxItemId |-> MaxRows])

NextRetrieveRace ==
    \E p \in Sessions :
        \/ \E project_id \in RunProjects :
                Create(p, project_id, FALSE, KB_INGEST_STATUS_SUCCEEDED)
        \/ \E kb_id \in 1..NRunKbIds, chunks \in IndexRows : UpsertKb(p, kb_id, chunks)
        \/ \E kb_id \in 1..NRunKbIds, project_id \in RunProjects, item_id \in 1..MaxRows :
                SoftDeleteItems(p, kb_id, project_id, {item_id})
        \/ \E project_id \in RunProjects, top_k_embedding \in 0..MaxTopK,
              top_k_bm25 \in 0..MaxTopK :
                StartRetrieve(p, project_id, top_k_embedding, top_k_bm25)
        \/ RetrieveDense(p)
        \/ RetrieveBm25(p)

SpecRetrieveRace == InitRetrieveRace /\ [][NextRetrieveRace]_vars

\* C34: the two scans of one retrieve_hybrid call see the same committed item
\* rows, so what another transaction committed between them is seen by both or
\* by neither, and no lexical hit is an item the dense scan saw soft-deleted or
\* did not see at all.
C34_ScansSeeOneSnapshot ==
    (ret.op = "retrieve" /\ "items_at_dense" \in DOMAIN ret) =>
        /\ ret.items_at_dense = ret.items_at_bm25
        /\ \A i \in HitIds(ret.bm25) :
              /\ i \in DOMAIN ret.items_at_dense
              /\ ret.items_at_dense[i].is_deleted = 0

\* ------------------------------------------------ concurrent add_one calls
InitAddRace ==
    InitWith([faults |-> 0, maxFaults |-> 0, runs |-> 0,
              maxKbId |-> NRunKbIds, maxItemId |-> MaxRows])

NextAddRace ==
    \E p \in Sessions :
        \/ \E project_id \in RunProjects, qa_text \in Texts :
                StartAddOne(p, project_id, qa_text)
        \/ GocLock(p)
        \/ GocSelect(p)
        \/ GocInsert(p)
        \/ AddIngesting(p)
        \/ AddExisting(p)
        \/ AddSkip(p)
        \/ AddEmbed(p)
        \/ AddIndex(p)
        \/ AddUpsert(p)
        \/ AddSucceed(p)

SpecAddRace == InitAddRace /\ [][NextAddRace]_vars

\* C35: an add_one call that returns an item id, in any interleaving with
\* other add_one calls of the project, has added an item of its own: the row
\* with that id is non-deleted, holds the call's text at the chunk index
\* returned, was not a row holding another text before the call's commit (no
\* add with a different text is overwritten), and no other non-deleted item of
\* the knowledge base has its chunk index.
C35_AddsDoNotOverwrite ==
    (ret.op = "add" /\ ~ret.raised /\ ~ret.skipped) =>
        /\ ret.item_id \in DOMAIN items
        /\ items[ret.item_id].is_deleted = 0
        /\ items[ret.item_id].origin_text = ret.qa_text
        /\ items[ret.item_id].chunk_index = ret.chunk_index
        /\ ret.item_id \in DOMAIN ret.items_before =>
              ret.items_before[ret.item_id].origin_text = ret.qa_text
        /\ \A i \in DOMAIN items :
              (/\ items[i].kb_id = ret.kb_id
               /\ items[i].is_deleted = 0
               /\ items[i].chunk_index = ret.chunk_index) => i = ret.item_id

\* C36: in every state of a QA knowledge base, whatever add_one, update_one,
\* delete_one and delete_many calls led to it, no two non-deleted items of the
\* knowledge base have the same origin_text.
C36_NoDuplicateLiveText ==
    \A i, j \in DOMAIN items :
        (/\ i # j
         /\ items[i].kb_id = items[j].kb_id
         /\ items[i].kb_id \in DOMAIN kbs
         /\ kbs[items[i].kb_id].qa_items
         /\ items[i].is_deleted = 0
         /\ items[j].is_deleted = 0) =>
            items[i].origin_text # items[j].origin_text

\* C37: in every reachable state every item with is_deleted = 0 belongs to a
\* knowledge base row with is_deleted = 0 in the same project; a run given a
\* soft-deleted knowledge base writes no non-deleted item.
C37_LiveItemHasLiveKb ==
    \A i \in DOMAIN items :
        items[i].is_deleted = 0 =>
            /\ items[i].kb_id \in DOMAIN kbs
            /\ kbs[items[i].kb_id].is_deleted = 0
            /\ kbs[items[i].kb_id].project_id = items[i].project_id

\* C38: after a run without append (here also without de-duplication, so that
\* every segment is written) returns ok on a live knowledge base that
\* already held items of an earlier run, the knowledge base's non-deleted
\* items are exactly this run's segments: their number is the recorded
\* success_count and no non-deleted item is left at a chunk index this run
\* did not write.
C38_FreshRunReplaces ==
    (/\ ret.op = "run"
     /\ ret.outcome = "ok"
     /\ ~ret.append_to_existing
     /\ ~ret.dedup_origin_text
     /\ RunKbLive
     /\ ret.status_written
     /\ \E i \in DOMAIN ret.items_at_start : ret.items_at_start[i].kb_id = ret.kb_id) =>
        LET live == {i \in DOMAIN items :
                        items[i].kb_id = ret.kb_id /\ items[i].is_deleted = 0}
        IN  /\ Cardinality(live) = kbs[ret.kb_id].success_count
            /\ \A i \in live : items[i].chunk_index < ret.total_upserted

\* C39: soft_delete returning deleted, followed at once by the restore of the
\* same knowledge base (the step that brings its row back), is a round trip:
\* the is_deleted flag of the knowledge base row and of every one of its item
\* rows is what it was before the delete, so an item that was soft-deleted on
\* its own before the delete is still soft-deleted after the restore.
C39_DeleteRestoreRoundTrip ==
    [][(/\ ret.op = "delete"
        /\ ret.reason = KB_DELETE_REASON_DELETED
        /\ ret'.op = "restore"
        /\ ~ret'.raised
        /\ kbs[ret.kb_id].is_deleted = 1
        /\ kbs'[ret.kb_id].is_deleted = 0) =>
            /\ kbs'[ret.kb_id].is_deleted = ret.kbs_before[ret.kb_id].is_deleted
            /\ DOMAIN items' = DOMAIN ret.items_before
            /\ \A i \in KbItemIds(items', ret.kb_id, ret.project_id) :
                  items'[i].is_deleted = ret.items_before[i].is_deleted]_vars

====
